---- MODULE Spec2Model ----
(***************************************************************************)
(* A model of loud-check (src/index.ts, the Check namespace that starts at *)
(* line 1145): the type registry, the per-field checker compiler, define   *)
(* and the recursive run2 engine.                                          *)
(*                                                                         *)
(* JavaScript values are records tagged by t.  Every kind of value keeps   *)
(* its payload under a field name of its own, so that two values of        *)
(* different kinds are simply unequal.                                     *)
(*   numbers are counted in halves (h = 2 * value) so that 1.5 exists      *)
(*   objects are functions from property names to values                   *)
(*   instances of a defined class (instanceof Base) carry the class name   *)
(***************************************************************************)
EXTENDS Integers, Sequences, FiniteSets, TLC

VARIABLES
  skip,      \* let skip             (index.ts:1147)
  unsafe,    \* let unsafe           (index.ts:1148)
  types,     \* const types          (index.ts:1219), names in priority order
  classes,   \* the metadata of every class define() has returned
  augment,   \* let augment          (index.ts:1649): "identity", or "throws"
             \* for a hook that throws
  op         \* the last call made on the library and what it returned

vars == <<skip, unsafe, types, classes, augment, op>>

---------------------------------------------------------------------------
(* Values *)

Undef == [t |-> "undefined"]
Null == [t |-> "null"]
Bool(b) == [t |-> "boolean", b |-> b]
Num(n) == [t |-> "number", h |-> 2 * n]
Half(h) == [t |-> "number", h |-> h]
Str(s) == [t |-> "string", s |-> s]
Arr(a) == [t |-> "array", a |-> a]
Obj(o) == [t |-> "object", o |-> o]
SetOf(m) == [t |-> "set", m |-> m]
Inst(cls, o, id) == [t |-> "instance", cls |-> cls, o |-> o, id |-> id]
\* the sample of cls where the sample itself holds it: the object is the one
\* metadata keeps, its properties are read from there
Self(cls) == [t |-> "instance", cls |-> cls, id |-> <<0, "sample " \o cls>>,
              self |-> TRUE]

\* the own properties of an object or instance
Props(v) == IF "self" \in DOMAIN v THEN classes[v.cls].sample.o ELSE v.o

Big(n) == [t |-> "bigint", n |-> n]
Regex(src, accepts) == [t |-> "regex", src |-> src, accepts |-> accepts]
Func(f) == [t |-> "function", f |-> f]

Empty == [k \in {} |-> Undef]

TYPE == "TYPE"
MIN == "MIN"
MAX == "MAX"
REQ == "REQ"
ALLOWED == "ALLOWED"
REGEX == "REGEX"
INTEGER == "INTEGER"
UNKNOWN == "UNKNOWN"
BIGINT == "BIGINT"

\* class Fail
Fail(prefix, code, message) == [prefix |-> prefix, code |-> code, message |-> message]

\* Fail.withPrefix as the first Fail class of the file has it
\* (index.ts:8-10): the prefix goes before the receiver's path
WithPrefixPrepend(fail, prefix) == Fail(prefix \o fail.prefix, fail.code, fail.message)

\* Fail.withPrefix
WithPrefix(fail, prefix) == Fail(prefix, fail.code, fail.message)

\* class CheckError
CheckError(fail) ==
  [name |-> "CheckError", message |-> fail.prefix \o ": " \o fail.message,
   prefix |-> fail.prefix, code |-> fail.code]

\* how a call that may throw ends
Returned(value) == [thrown |-> FALSE, value |-> value]
Thrown(error) == [thrown |-> TRUE, error |-> error]

\* an Error object, as "throw new Error(message)" and the engine of
\* JavaScript make them
Error(name, message) == [name |-> name, message |-> message]

\* what a checker that throws gives in place of a Fail or undefined
Throw(e) == [raised |-> e]

\* the result of a call inside the engine that did not return: the exception
\* e is on its way up, ev is what the call had done
Escaping(e, ev) == [escaped |-> TRUE, error |-> e, ev |-> ev]

\* r is such a result
Escapes(r) == "escaped" \in DOMAIN r

Success(result) == [success |-> TRUE, result |-> result]
Failure(fail) == [success |-> FALSE, fail |-> fail]

\* v instanceof Base
InstanceOfBase(v) == v.t = "instance"

\* Array.isArray(v)
IsArray(v) == v.t = "array"

\* typeof(v)
TypeofJS(v) ==
  CASE v.t \in {"undefined", "boolean", "number", "string", "function", "bigint"} -> v.t
    [] OTHER -> "object"

\* const typeOf
typeOf(v) == IF IsArray(v) THEN "array" ELSE TypeofJS(v)

\* String(v) of a number: the halves print as n or n.5
NumberToString(h) ==
  IF h % 2 = 0 THEN ToString(h \div 2)
  ELSE IF h > 0 THEN ToString(h \div 2) \o ".5"
  ELSE IF h = -1 THEN "-0.5"
  ELSE ToString((h + 1) \div 2) \o ".5"

RECURSIVE JoinFrom(_, _)

\* String(v), as template literals and RegExp.test apply it
StringOf(v) ==
  CASE v.t = "string" -> v.s
    [] v.t = "number" -> NumberToString(v.h)
    [] v.t = "undefined" -> "undefined"
    [] v.t = "null" -> "null"
    [] v.t = "boolean" -> IF v.b THEN "true" ELSE "false"
    [] v.t = "array" -> JoinFrom(v.a, 1)
    [] v.t = "regex" -> v.src
    [] v.t = "set" -> "[object Set]"
    [] v.t = "bigint" -> ToString(v.n)
    [] OTHER -> "[object Object]"

\* Array.prototype.join(","), which prints null and undefined as nothing
JoinFrom(a, i) ==
  IF i > Len(a) THEN ""
  ELSE (IF a[i].t \in {"undefined", "null"} THEN "" ELSE StringOf(a[i]))
       \o (IF i < Len(a) THEN "," ELSE "")
       \o JoinFrom(a, i + 1)

---------------------------------------------------------------------------
(* The type registry *)

\* Type.priority: arrayType, the test suite's Set collection (collectionType)
\* and its bigint Type, "checked object" and "default"
Priority(type) ==
  CASE type = "bigint" -> 500000000
    [] type = "test" -> 400000000
    [] type = "array" -> 300000000
    [] type = "checked object" -> 200000000
    [] OTHER -> 0

\* the collection types: collectionType(c) with c.name = type
IsCollectionType(type) == type \in {"array", "test"}

\* Collection.make
Make(c) == IF c = "array" THEN Arr(<<>>) ELSE SetOf(<<>>)

\* Collection.appliesTo
CollectionAppliesTo(c, v) == IF c = "array" THEN IsArray(v) ELSE v.t = "set"

\* Collection.add: Array.push, Set.add
Add(c, collection, v) ==
  IF c = "array" THEN Arr(Append(collection.a, v))
  ELSE IF \E i \in 1..Len(collection.m) : collection.m[i] = v THEN collection
  ELSE SetOf(Append(collection.m, v))

\* Collection.sampleElement: c[0], set.values().next().value
SampleElement(c, sampleCollection) ==
  IF c = "array"
  THEN IF Len(sampleCollection.a) > 0 THEN sampleCollection.a[1] ELSE Undef
  ELSE IF Len(sampleCollection.m) > 0 THEN sampleCollection.m[1] ELSE Undef

\* Type.appliesTo
AppliesTo(type, v) ==
  CASE IsCollectionType(type) -> CollectionAppliesTo(type, v)
    [] type = "checked object" -> InstanceOfBase(v)
    [] type = "bigint" -> TypeofJS(v) = "bigint"
    [] OTHER -> TRUE

\* types.find(x => x.appliesTo(v))
FindType(v) ==
  types[CHOOSE i \in 1..Len(types) :
          /\ AppliesTo(types[i], v)
          /\ \A j \in 1..(i - 1) : ~AppliesTo(types[j], v)]

\* DefaultTo giving the sample for every type
DefaultToSample(type, sample) == sample

\* Type.defaultTo
DefaultTo(type, sample) == IF IsCollectionType(type) THEN Make(type) ELSE sample

\* Mismatch with no test of the type of a primitive
MismatchUntyped(type, json, sample) ==
  CASE IsCollectionType(type) ->
         IF type # "array" /\ CollectionAppliesTo(type, json) THEN Bool(TRUE)
         ELSE IF ~IsArray(json) THEN Str("expected array but got " \o typeOf(json))
         ELSE Bool(FALSE)
    [] type = "checked object" ->
         IF InstanceOfBase(json) THEN Bool(TRUE)
         ELSE IF typeOf(json) # "object"
              THEN Str("expected object but got " \o typeOf(json))
         ELSE Bool(FALSE)
    [] type = "bigint" ->
         IF TypeofJS(json) # "string"
         THEN Str("expected bigint string but got " \o TypeofJS(json))
         ELSE Bool(FALSE)
    [] OTHER -> Bool(FALSE)

\* Mismatch leaving an instance to the parse of the checked-object Type
MismatchParsingInstances(type, json, sample) ==
  CASE IsCollectionType(type) ->
         IF type # "array" /\ CollectionAppliesTo(type, json) THEN Bool(TRUE)
         ELSE IF ~IsArray(json) THEN Str("expected array but got " \o typeOf(json))
         ELSE Bool(FALSE)
    [] type = "checked object" ->
         IF InstanceOfBase(json) THEN Bool(FALSE)
         ELSE IF typeOf(json) # "object"
              THEN Str("expected object but got " \o typeOf(json))
         ELSE Bool(FALSE)
    [] type = "bigint" ->
         IF TypeofJS(json) # "string"
         THEN Str("expected bigint string but got " \o TypeofJS(json))
         ELSE Bool(FALSE)
    [] OTHER ->
         IF typeOf(sample) # typeOf(json)
         THEN Str("expected " \o typeOf(sample) \o " but got " \o typeOf(json))
         ELSE Bool(FALSE)

\* Type.mismatch: a string (the TYPE message), true (use the value as it is)
\* or false (parse it)
Mismatch(type, json, sample) ==
  CASE IsCollectionType(type) ->
         IF type # "array" /\ CollectionAppliesTo(type, json) THEN Bool(TRUE)
         ELSE IF ~IsArray(json) THEN Str("expected array but got " \o typeOf(json))
         ELSE Bool(FALSE)
    [] type = "checked object" ->
         IF InstanceOfBase(json) THEN Bool(TRUE)
         ELSE IF typeOf(json) # "object"
              THEN Str("expected object but got " \o typeOf(json))
         ELSE Bool(FALSE)
    [] type = "bigint" ->
         IF TypeofJS(json) # "string"
         THEN Str("expected bigint string but got " \o TypeofJS(json))
         ELSE Bool(FALSE)
    [] OTHER ->
         IF typeOf(sample) # typeOf(json)
         THEN Str("expected " \o typeOf(sample) \o " but got " \o typeOf(json))
         ELSE Bool(FALSE)

\* types.push(type) with no sort after it
Pushed(ts, type) == Append(ts, type)

RECURSIVE InsertSorted(_, _)

\* the place types.sort((a,b) => b.priority - a.priority) gives a pushed type:
\* after every type of at least its priority (the sort is stable)
InsertSorted(ts, type) ==
  IF ts = <<>> THEN <<type>>
  ELSE IF Priority(Head(ts)) >= Priority(type)
       THEN <<Head(ts)>> \o InsertSorted(Tail(ts), type)
       ELSE <<type>> \o ts

---------------------------------------------------------------------------
(* The checkers.  A compiled checker is a record: pass names the checker,  *)
(* by the comparison minChecker and maxChecker chose from the sample.      *)

\* const hasProp.  (A null sample makes "prop in value" throw inside define;
\* no schema of this model gives min or max to a null sample.)
hasProp(value, prop) ==
  /\ TypeofJS(value) = "object"
  /\ \/ value.t = "array" /\ prop = "length"
     \/ value.t = "set" /\ prop = "size"
     \/ value.t \in {"object", "instance"} /\ prop \in DOMAIN Props(value)

\* value.length: a number, or undefined
LengthOf(value) ==
  CASE value.t = "string" -> Num(Len(value.s))
    [] value.t = "array" -> Num(Len(value.a))
    [] value.t \in {"object", "instance"} /\ "length" \in DOMAIN Props(value) ->
         Props(value)["length"]
    [] OTHER -> Undef

\* Array.isArray(value) ? value.length : value.size
SizeOf(value) ==
  CASE value.t = "array" -> Num(Len(value.a))
    [] value.t = "set" -> Num(Len(value.m))
    [] value.t \in {"object", "instance"} /\ "size" \in DOMAIN Props(value) ->
         Props(value)["size"]
    [] OTHER -> Undef

\* Less taking a bound itself for a violation
LessOrEqual(a, b) == a.t = "number" /\ b.t = "number" /\ a.h <= b.h

\* a < b of two numbers; a comparison with undefined is false
Less(a, b) == a.t = "number" /\ b.t = "number" /\ a.h < b.h

\* the subject minChecker and maxChecker compare, by the mode fixed at define
Measured(by, value) ==
  CASE by = "length" -> LengthOf(value)
    [] by = "size" -> SizeOf(value)
    [] OTHER -> value

\* the mode minChecker and maxChecker take from the sample
CompareBy(sample) ==
  IF TypeofJS(sample) = "string" \/ hasProp(sample, "length") THEN "length"
  ELSE IF hasProp(sample, "size") THEN "size"
  ELSE "value"

\* const minChecker
minChecker(name, sample, min) ==
  IF min = Undef THEN <<>>
  ELSE <<[pass |-> "min", by |-> CompareBy(sample), name |-> name, limit |-> min]>>

\* const maxChecker
maxChecker(name, sample, max) ==
  IF max = Undef THEN <<>>
  ELSE <<[pass |-> "max", by |-> CompareBy(sample), name |-> name, limit |-> max]>>

\* const allowedChecker
allowedChecker(name, allowed) ==
  IF allowed = Undef THEN <<>>
  ELSE <<[pass |-> "allowed", name |-> name, allowed |-> allowed]>>

\* const regexChecker
regexChecker(name, regex) ==
  IF regex = Undef THEN <<>>
  ELSE <<[pass |-> "regex", name |-> name, regex |-> regex]>>

\* const integerChecker
integerChecker(name, sample, integer) ==
  IF (IF integer = Undef THEN Bool(TRUE) ELSE integer) # Bool(TRUE) THEN <<>>
  ELSE IF TypeofJS(sample) # "number" THEN <<>>
  ELSE <<[pass |-> "integer", name |-> name]>>

\* Property.custom
customChecker(custom) ==
  IF custom = Undef THEN <<>> ELSE <<[pass |-> "custom", f |-> custom.f]>>

\* optimize with the custom checker put first in the chain
optimizeCustomFirst(name, sample, p) ==
  [name |-> name,
   v |-> sample,
   required |-> IF p.required = Undef THEN Bool(TRUE) ELSE p.required,
   passes |-> customChecker(p.custom)
              \o minChecker(name, sample, p.min)
              \o maxChecker(name, sample, p.max)
              \o allowedChecker(name, p.allowed)
              \o regexChecker(name, p.regex)
              \o integerChecker(name, sample, p.integer)]

\* const optimize: the chain, in its fixed order
optimize(name, sample, p) ==
  [name |-> name,
   v |-> sample,
   required |-> IF p.required = Undef THEN Bool(TRUE) ELSE p.required,
   passes |-> minChecker(name, sample, p.min)
              \o maxChecker(name, sample, p.max)
              \o allowedChecker(name, p.allowed)
              \o regexChecker(name, p.regex)
              \o integerChecker(name, sample, p.integer)
              \o customChecker(p.custom)]

\* Number.isSafeInteger, for the magnitudes of this model (all below 2^53)
IsSafeInteger(value) == value.t = "number" /\ value.h % 2 = 0

\* the custom checkers of the model's schemas.  "even" is the one of the test
\* suite: (value % 2 !== 0) => new Fail("v", "EVEN", "must be even");
\* "throws" is () => { throw new Error("boom") } and "throwsText" is
\* () => { throw "boom" }
Custom(f, value) ==
  CASE f = "even" ->
         IF ~(value.t = "number" /\ value.h % 4 = 0)
         THEN Fail("v", "EVEN", "must be even")
         ELSE Undef
    [] f = "throws" -> Throw(Error("Error", "boom"))
    [] f = "throwsText" -> Throw(Str("boom"))
    [] OTHER -> Undef

\* one checker applied to a value: a Fail, or undefined
Checker(c, value) ==
  CASE c.pass = "min" ->
         IF Less(Measured(c.by, value), c.limit)
         THEN Fail(c.name, MIN,
                   c.by \o " of " \o StringOf(Measured(c.by, value))
                   \o " < minimum " \o c.by \o " of " \o StringOf(c.limit))
         ELSE Undef
    [] c.pass = "max" ->
         IF Less(c.limit, Measured(c.by, value))
         THEN Fail(c.name, MAX,
                   c.by \o " of " \o StringOf(Measured(c.by, value))
                   \o " > maximum " \o c.by \o " of " \o StringOf(c.limit))
         ELSE Undef
    [] c.pass = "allowed" ->
         IF ~\E i \in 1..Len(c.allowed.a) : c.allowed.a[i] = value
         THEN Fail(c.name, ALLOWED,
                   "invalid value: " \o StringOf(value)
                   \o " - valid values are: " \o StringOf(c.allowed))
         ELSE Undef
    [] c.pass = "regex" ->
         IF StringOf(value) \notin c.regex.accepts
         THEN Fail(c.name, REGEX,
                   "invalid value: " \o StringOf(value)
                   \o " - must match " \o StringOf(c.regex))
         ELSE Undef
    [] c.pass = "integer" ->
         IF ~IsSafeInteger(value)
         THEN Fail(c.name, INTEGER,
                   "value of " \o StringOf(value) \o " is not a safe integer")
         ELSE Undef
    [] OTHER -> Custom(c.f, value)

\* const toFunction: the chain compiled for a property
toFunction(name, p) == optimize(name, p.v, p).passes

\* check giving the Fail of the first failing checker only
checkFirst(passes, value) ==
  IF \A i \in 1..Len(passes) : Checker(passes[i], value) = Undef THEN <<>>
  ELSE <<Checker(passes[CHOOSE i \in 1..Len(passes) :
                          /\ Checker(passes[i], value) # Undef
                          /\ \A j \in 1..(i - 1) : Checker(passes[j], value) = Undef],
                 value)>>

\* the checkers of the chain that throw on the value
Raising(passes, value) ==
  {i \in 1..Len(passes) : "raised" \in DOMAIN Checker(passes[i], value)}

\* the first of them: passes.map stops there, and Field.check throws what
\* the checker threw
FirstRaising(passes, value) ==
  CHOOSE i \in Raising(passes, value) : \A j \in Raising(passes, value) : i <= j

Interrupted(passes, value) == Checker(passes[FirstRaising(passes, value)], value).raised

\* Field.check, the function toFunction returns: every checker of the chain
\* is applied (passes.map), then the undefined results are filtered out; the
\* value of a chain that does not throw
check(passes, value) ==
  SelectSeq([i \in 1..Len(passes) |-> Checker(passes[i], value)],
            LAMBDA x : x # Undef /\ "raised" \notin DOMAIN x)

\* Invoked with the chain left at its first failing checker
InvokedUntilFail(passes, prefix, value) ==
  LET failing == {i \in 1..Len(passes) : Checker(passes[i], value) # Undef}
      last == IF failing = {} THEN Len(passes)
              ELSE CHOOSE i \in failing : \A j \in failing : i <= j
  IN  [i \in 1..last |->
         [e |-> "check", prefix |-> prefix, pass |-> passes[i].pass, value |-> value,
          ret |-> Checker(passes[i], value)]]

\* the calls Field.check makes on the checkers, in order, the last being
\* the call that throws if there is one
Invoked(passes, prefix, value) ==
  [i \in 1..(IF Raising(passes, value) = {} THEN Len(passes)
             ELSE FirstRaising(passes, value)) |->
     [e |-> "check", prefix |-> prefix, pass |-> passes[i].pass, value |-> value,
      ret |-> Checker(passes[i], value)]]

---------------------------------------------------------------------------
(* define.  A schema is a sequence of <<name, Property>> in declaration     *)
(* order; a Property gives undefined to what it does not declare.          *)

Property(v) ==
  [v |-> v, required |-> Undef, min |-> Undef, max |-> Undef, allowed |-> Undef,
   fallback |-> Undef, integer |-> Undef, regex |-> Undef, custom |-> Undef]

\* the greater of two numbers
Greater(a, b) == IF a > b THEN a ELSE b

RECURSIVE Age(_)
RECURSIVE AgeOfAll(_, _)

\* the generation of the youngest object in the sequence a from index i on
AgeOfAll(a, i) == IF i > Len(a) THEN 0 ELSE Greater(Age(a[i]), AgeOfAll(a, i + 1))

\* the generation of the youngest instance reachable from v; what is inside
\* an instance was made before it or with it
Age(v) ==
  CASE v.t = "instance" -> v.id[1]
    [] v.t = "array" -> AgeOfAll(v.a, 1)
    [] v.t = "object" ->
         IF DOMAIN v.o = {} THEN 0
         ELSE CHOOSE g \in {Age(v.o[k]) : k \in DOMAIN v.o} :
                \A k \in DOMAIN v.o : Age(v.o[k]) <= g
    [] OTHER -> 0

\* the identity of the object that "new" makes at objectPrefix out of json:
\* an object that is none of those json holds
Fresh(json, objectPrefix) == <<Age(json) + 1, objectPrefix>>

\* new cls(input) while unsafe is set: Object.assign(this, input), then
\* augment, which is the identity unless augmentWith replaced it; id is the
\* identity of this
NewUnsafe(cls, input, id) == Inst(cls, input, id)

\* const define: the Metadata of the class
define(cls, schema) ==
  [cls |-> cls,
   fields |-> [i \in 1..Len(schema) |->
                 [k |-> schema[i][1],
                  property |-> schema[i][2],
                  check |-> toFunction(schema[i][1], schema[i][2]),
                  type |-> FindType(schema[i][2].v)]],
   sample |-> NewUnsafe(cls, [k \in {schema[i][1] : i \in 1..Len(schema)} |->
                 schema[CHOOSE i \in 1..Len(schema) : schema[i][1] = k][2].v],
                        <<0, "sample " \o cls>>)]

\* const metadata
metadata(cls) == classes[cls]

\* s[key] = value: the sample that holds itself holds a reference
Knot(s, value) ==
  IF value.t = "instance" /\ value.id = s.id THEN Self(s.cls) ELSE value

\* recurse that sets the property of the sample and leaves the field as
\* define compiled it
recurseSampleOnly(cls, key, value) ==
  [metadata(cls) EXCEPT !.sample.o = (key :> Knot(metadata(cls).sample, value)) @@ @]

\* const recurse: the metadata of cls after the call
recurse(cls, key, value) ==
  [cls |-> cls,
   fields |-> [i \in 1..Len(metadata(cls).fields) |->
                 IF metadata(cls).fields[i].k # key THEN metadata(cls).fields[i]
                 ELSE [k |-> key,
                       property |-> [metadata(cls).fields[i].property EXCEPT
                                       !.v = Knot(metadata(cls).sample, value)],
                       check |-> toFunction(key,
                                   [metadata(cls).fields[i].property EXCEPT
                                      !.v = Knot(metadata(cls).sample, value)]),
                       type |-> FindType(value)]],
   sample |-> [metadata(cls).sample EXCEPT
                 !.o = (key :> Knot(metadata(cls).sample, value)) @@ @]]

---------------------------------------------------------------------------
(* run2.  Every operator of the engine returns, beside the Success or      *)
(* Failure of the code, ev: what the call did, in order.                   *)
(*   [e |-> "check"]  one checker of a chain was invoked on a value and    *)
(*                    returned ret                                         *)
(*   [e |-> "warn"]   the warning sink was called                          *)
(*   [e |-> "run2"]   one call of run2 returned ret, after doing ev        *)

RECURSIVE run2(_, _, _)
RECURSIVE Parse(_, _, _, _)
RECURSIVE ParseElements(_, _, _, _, _, _)
RECURSIVE FieldLoop(_, _, _, _, _, _)
RECURSIVE Stored(_, _, _, _, _, _, _)
RECURSIVE Added(_, _, _, _, _, _, _)

Ret(r) ==
  IF Escapes(r) THEN Thrown(r.error)
  ELSE IF r.success THEN Success(r.result) ELSE Failure(r.fail)

Warn(message) == [e |-> "warn", message |-> message]

\* Missing with null taken for a value
MissingUndefinedOnly(value) == value = Undef

\* value === undefined || value === null
Missing(value) == value = Undef \/ value = Null

\* json[k]; reading a property of null or undefined throws a TypeError
Throws(json) == json.t \in {"null", "undefined"}

Get(json, k) ==
  IF json.t \in {"object", "instance"} /\ k \in DOMAIN Props(json) THEN Props(json)[k]
  ELSE Undef

\* the message of the TypeError json[k] throws
ReadError(json, k) ==
  "Cannot read properties of " \o json.t \o " (reading '" \o k \o "')"

\* prop.allowed.indexOf(value) < 0
NotAllowed(allowed, value) == ~\E i \in 1..Len(allowed.a) : allowed.a[i] = value

\* ElementPrefix counting the elements from 1
ElementPrefixFrom1(prefix, i) == prefix \o "[" \o ToString(i + 1) \o "]"

\* prefix + "[" + i + "]", i counted from 0
ElementPrefix(prefix, i) == prefix \o "[" \o ToString(i) \o "]"

\* the value a field is checked as: the input value, the Type's default for
\* a missing "default" field, the fallback for a value that is not allowed
Defaulted(field, sampleValue, value) ==
  IF Missing(value) /\ field.property.required = Str("default")
  THEN DefaultTo(field.type, sampleValue)
  ELSE value

\* RequiredStep without the required:false branch
RequiredStepNoOptional(prop, missing) ==
  IF missing /\ prop.required # Str("default") THEN "return" ELSE "check"

\* what lines 1556-1567 decide for a field: leave it out, fail with REQ, or
\* go on to check a value
RequiredStep(prop, missing) ==
  IF prop.required = Bool(FALSE) /\ missing THEN "continue"
  ELSE IF prop.required # Bool(FALSE) /\ missing /\ prop.required # Str("default")
       THEN "return"
  ELSE "check"

\* Substituted with the type compared before the substitution
SubstitutedSameType(prop, value) ==
  IF prop.allowed # Undef /\ prop.fallback # Undef /\ NotAllowed(prop.allowed, value)
     /\ typeOf(value) = typeOf(prop.fallback)
  THEN prop.fallback
  ELSE value

\* lines 1568-1572: the fallback replaces a value that is not allowed
Substituted(prop, value) ==
  IF prop.allowed # Undef /\ prop.fallback # Undef /\ NotAllowed(prop.allowed, value)
  THEN prop.fallback
  ELSE value

\* the TypeError of "message" in e for an e that is no object
NotAnObject(e) ==
  Error("TypeError",
        "Cannot use 'in' operator to search for 'message' in " \o StringOf(e))

\* lines 1594-1597, the catch of the loop of run2: "message" in e, which
\* throws for a primitive e, then the UNKNOWN Failure with e.message
Caught(prefix, e, ev) ==
  IF "t" \in DOMAIN e
  THEN [kind |-> "throw", ev |-> ev, error |-> NotAnObject(e)]
  ELSE [kind |-> "return", ev |-> ev, fail |-> Fail(prefix, UNKNOWN, e.message)]

\* lines 1585-1592: the value the Type parsed is stored; a Failure is
\* returned, or logged and passed over for an optional nested object; an
\* exception out of parse is caught
Parsed(field, prefix, sampleValue, calls, r) ==
  IF Escapes(r)
  THEN Caught(prefix, r.error, calls \o r.ev)
  ELSE IF r.success
  THEN [kind |-> "set", ev |-> calls \o r.ev, value |-> r.result]
  ELSE IF InstanceOfBase(sampleValue) /\ field.property.required = Bool(FALSE)
  THEN [kind |-> "continue",
        ev |-> calls \o r.ev
               \o <<Warn("skipping nested object " \o r.fail.prefix
                         \o " - " \o r.fail.message)>>]
  ELSE [kind |-> "return", ev |-> calls \o r.ev, fail |-> r.fail]

\* Checked storing a value the Type takes as it is without a look at what
\* the chain said
CheckedTrusting(field, prefix, sampleValue, value, mm, calls, fails) ==
  IF mm.t = "string"
  THEN [kind |-> "return", ev |-> <<>>, fail |-> Fail(prefix, TYPE, mm.s)]
  ELSE IF mm = Bool(TRUE)
  THEN [kind |-> "set", ev |-> calls, value |-> value]
  ELSE IF Raising(field.check, value) # {}
  THEN Caught(prefix, Interrupted(field.check, value), calls)
  ELSE IF Len(fails) > 0
  THEN [kind |-> "return", ev |-> calls, fail |-> WithPrefix(fails[1], prefix)]
  ELSE Parsed(field, prefix, sampleValue, calls,
              Parse(field.type, prefix, sampleValue, value))

\* lines 1573-1585: a mismatch is a TYPE Failure, an exception out of the
\* chain is caught, then the first Fail of the chain is returned, then a
\* value the Type takes as it is is stored
Checked(field, prefix, sampleValue, value, mm, calls, fails) ==
  IF mm.t = "string"
  THEN [kind |-> "return", ev |-> <<>>, fail |-> Fail(prefix, TYPE, mm.s)]
  ELSE IF Raising(field.check, value) # {}
  THEN Caught(prefix, Interrupted(field.check, value), calls)
  ELSE IF Len(fails) > 0
  THEN [kind |-> "return", ev |-> calls, fail |-> WithPrefix(fails[1], prefix)]
  ELSE IF mm = Bool(TRUE)
  THEN [kind |-> "set", ev |-> calls, value |-> value]
  ELSE Parsed(field, prefix, sampleValue, calls,
              Parse(field.type, prefix, sampleValue, value))

\* lines 1573-1577: the value after the default and the fallback, its
\* mismatch and the checks of the chain
Valued(field, prefix, sampleValue, value) ==
  Checked(field, prefix, sampleValue, value,
          Mismatch(field.type, value, sampleValue),
          Invoked(field.check, prefix, value),
          check(field.check, value))

\* lines 1556-1572: a missing field is left out, or fails with REQ; a
\* value goes on, after the default and the fallback
Required(field, prefix, sampleValue, input, step) ==
  IF step = "continue"
  THEN [kind |-> "continue", ev |-> <<>>]
  ELSE IF step = "return"
  THEN [kind |-> "return", ev |-> <<>>,
        fail |-> Fail(prefix, REQ, "missing required property")]
  ELSE Valued(field, prefix, sampleValue,
              Substituted(field.property, Defaulted(field, sampleValue, input)))

\* lines 1550-1555 and 1594-1597: json[k], which throws for a json that has
\* no properties; the catch makes the error an UNKNOWN Failure
Read(field, prefix, sampleValue, json) ==
  IF Throws(json)
  THEN [kind |-> "return", ev |-> <<>>,
        fail |-> Fail(prefix, UNKNOWN, ReadError(json, field.k))]
  ELSE Required(field, prefix, sampleValue, Get(json, field.k),
                RequiredStep(field.property, Missing(Get(json, field.k))))

\* the body of the loop of run2 for field i of the class: "continue" (the
\* field is left out), "set" (result[k] = value) or "return" (a Failure)
Field(cls, objectPrefix, json, i) ==
  Read(metadata(cls).fields[i], objectPrefix \o metadata(cls).fields[i].k,
       Get(metadata(cls).sample, metadata(cls).fields[i].k), json)

\* what the augment hook throws, when it does
AugmentError == Error("Error", "augment")

\* Built with a constructor that validates what it is given: the checkers
\* run once more
BuiltValidating(cls, objectPrefix, json, result, ev) ==
  [success |-> TRUE, built |-> TRUE, ev |-> ev \o ev,
   result |-> NewUnsafe(cls, result, Fresh(json, objectPrefix))]

\* lines 1599-1602: unsafe = true, new cls(result), unsafe = false.  The
\* constructor takes its unsafe branch and ends with augment(this); if the
\* hook throws, the exception leaves run2 and unsafe stays set.  built marks
\* a call of run2 that came to its construction
Built(cls, objectPrefix, json, result, ev) ==
  IF augment = "throws"
  THEN [escaped |-> TRUE, built |-> TRUE, error |-> AugmentError, ev |-> ev]
  ELSE [success |-> TRUE, built |-> TRUE, ev |-> ev,
        result |-> NewUnsafe(cls, result, Fresh(json, objectPrefix))]

RECURSIVE FieldLoopLast(_, _, _, _, _, _)

\* FieldLoop going on after a failing field and returning the last Failure
FieldLoopLast(cls, objectPrefix, json, i, result, ev) ==
  IF i > Len(metadata(cls).fields)
  THEN IF "fail" \in DOMAIN result
       THEN [success |-> FALSE, fail |-> result.fail, ev |-> ev]
       ELSE Built(cls, objectPrefix, json, result, ev)
  ELSE LET f == Field(cls, objectPrefix, json, i)
       IN  FieldLoopLast(cls, objectPrefix, json, i + 1,
                         IF f.kind = "throw" THEN result
                         ELSE IF f.kind = "return" THEN [fail |-> f.fail]
                         ELSE IF f.kind = "set" /\ "fail" \notin DOMAIN result
                              THEN (metadata(cls).fields[i].k :> f.value) @@ result
                         ELSE result,
                         ev \o f.ev)

\* what the loop of run2 does with the outcome f of field i
Stored(cls, objectPrefix, json, i, result, ev, f) ==
  IF f.kind = "throw"
  THEN Escaping(f.error, ev \o f.ev)
  ELSE IF f.kind = "return"
  THEN [success |-> FALSE, fail |-> f.fail, ev |-> ev \o f.ev]
  ELSE FieldLoop(cls, objectPrefix, json, i + 1,
                 IF f.kind = "set"
                 THEN (metadata(cls).fields[i].k :> f.value) @@ result
                 ELSE result,
                 ev \o f.ev)

\* the loop of run2 from field i on, and the construction that ends it
FieldLoop(cls, objectPrefix, json, i, result, ev) ==
  IF i > Len(metadata(cls).fields)
  THEN Built(cls, objectPrefix, json, result, ev)
  ELSE Stored(cls, objectPrefix, json, i, result, ev,
              Field(cls, objectPrefix, json, i))

\* ObjectPrefix with no separator
ObjectPrefixJoined(objectPrefix) == objectPrefix

\* objectPrefix += "."
ObjectPrefix(objectPrefix) ==
  IF objectPrefix # "" THEN objectPrefix \o "." ELSE objectPrefix

\* the call of run2 with what it returned, added to the log
Framed(cls, objectPrefix, json, r) ==
  [r EXCEPT !.ev = r.ev \o <<[e |-> "run2", cls |-> cls, prefix |-> objectPrefix,
                              json |-> json, ret |-> Ret(r), ev |-> r.ev,
                              built |-> "built" \in DOMAIN r]>>]

\* run2 without its first line: an instance is walked like any object
run2Walking(cls, objectPrefix, json) ==
  Framed(cls, objectPrefix, json,
         FieldLoop(cls, ObjectPrefix(objectPrefix), json, 1, Empty, <<>>))

\* const run2
run2(cls, objectPrefix, json) ==
  Framed(cls, objectPrefix, json,
         IF InstanceOfBase(json)
         THEN [success |-> TRUE, result |-> json, ev |-> <<>>]
         ELSE FieldLoop(cls, ObjectPrefix(objectPrefix), json, 1, Empty, <<>>))

RECURSIVE ParseElementsAbort(_, _, _, _, _, _)

\* ParseElements returning the Failure of an element whatever skip says
ParseElementsAbort(c, prefix, sampleElement, a, i, acc) ==
  IF i >= Len(a) THEN [success |-> TRUE, result |-> acc.result, ev |-> acc.ev]
  ELSE
    LET type == FindType(sampleElement)
        element == a[i + 1]
        mm == Mismatch(type, element, sampleElement)
        r == IF InstanceOfBase(sampleElement)
             THEN run2(sampleElement.cls, ElementPrefix(prefix, i), element)
             ELSE Parse(type, ElementPrefix(prefix, i), sampleElement, element)
    IN  IF mm.t = "string"
        THEN [success |-> FALSE, ev |-> acc.ev,
              fail |-> Fail(ElementPrefix(prefix, i), TYPE, mm.s)]
        ELSE IF r.success
        THEN ParseElementsAbort(c, prefix, sampleElement, a, i + 1,
                                [result |-> Add(c, acc.result, r.result),
                                 ev |-> acc.ev \o r.ev])
        ELSE IF ~InstanceOfBase(sampleElement)
        THEN ParseElementsAbort(c, prefix, sampleElement, a, i + 1,
                                [result |-> acc.result, ev |-> acc.ev \o r.ev])
        ELSE [success |-> FALSE, fail |-> r.fail, ev |-> acc.ev \o r.ev]

\* lines 1190-1203: what the loop does with the Result r of element i; an
\* exception out of run2 leaves the loop
Added(c, prefix, sampleElement, a, i, acc, r) ==
  IF Escapes(r)
  THEN Escaping(r.error, acc.ev \o r.ev)
  ELSE IF r.success
  THEN ParseElements(c, prefix, sampleElement, a, i + 1,
                     [result |-> Add(c, acc.result, r.result),
                      ev |-> acc.ev \o r.ev])
  ELSE IF ~InstanceOfBase(sampleElement)
  THEN ParseElements(c, prefix, sampleElement, a, i + 1,
                     [result |-> acc.result, ev |-> acc.ev \o r.ev])
  ELSE IF skip
  THEN ParseElements(c, prefix, sampleElement, a, i + 1,
                     [result |-> acc.result,
                      ev |-> acc.ev \o r.ev
                             \o <<Warn("skipping element " \o r.fail.prefix
                                       \o " - " \o r.fail.message)>>])
  ELSE [success |-> FALSE, fail |-> r.fail, ev |-> acc.ev \o r.ev]

\* what the loop does with element i, of mismatch mm
Element(c, prefix, sampleElement, a, i, acc, mm) ==
  IF mm.t = "string"
  THEN [success |-> FALSE, ev |-> acc.ev,
        fail |-> Fail(ElementPrefix(prefix, i), TYPE, mm.s)]
  ELSE Added(c, prefix, sampleElement, a, i, acc,
             IF InstanceOfBase(sampleElement)
             THEN run2(sampleElement.cls, ElementPrefix(prefix, i), a[i + 1])
             ELSE Parse(FindType(sampleElement), ElementPrefix(prefix, i),
                        sampleElement, a[i + 1]))

\* the loop of collectionType(c).parse from element i on (i counted from 0)
ParseElements(c, prefix, sampleElement, a, i, acc) ==
  IF i >= Len(a) THEN [success |-> TRUE, result |-> acc.result, ev |-> acc.ev]
  ELSE Element(c, prefix, sampleElement, a, i, acc,
               Mismatch(FindType(sampleElement), a[i + 1], sampleElement))

\* the strings BigInt converts, among those of one character at most: the
\* empty string and the decimal digits
Numeral(s) == s = "" \/ \E n \in 0..9 : ToString(n) = s

\* BigInt(s) of such a string: the empty string is 0n, a digit is its number;
\* for any other string BigInt throws a SyntaxError
BigInt(s) ==
  IF s = "" THEN Big(0) ELSE Big(CHOOSE n \in 0..9 : ToString(n) = s)

\* parse of the bigint Type: BigInt(json), or a Fail with the message of
\* the error BigInt throws
ParseBigInt(prefix, json) ==
  IF Numeral(json.s)
  THEN [success |-> TRUE, result |-> BigInt(json.s), ev |-> <<>>]
  ELSE [success |-> FALSE, ev |-> <<>>,
        fail |-> Fail(prefix, BIGINT, "Cannot convert " \o json.s \o " to a BigInt")]

\* Type.parse
Parse(type, prefix, sample, json) ==
  CASE IsCollectionType(type) ->
         ParseElements(type, prefix, SampleElement(type, sample),
                       IF IsArray(json) THEN json.a ELSE <<>>, 0,
                       [result |-> Make(type), ev |-> <<>>])
    [] type = "checked object" -> run2(sample.cls, prefix, json)
    [] type = "bigint" -> ParseBigInt(prefix, json)
    [] OTHER -> [success |-> TRUE, result |-> json, ev |-> <<>>]

---------------------------------------------------------------------------
(* JSON text.  A text is the sequence of its tokens: the punctuation, the  *)
(* literals null, true and false, a number as it prints and a string       *)
(* between double quotes.                                                  *)

\* the property names of the schemas, in the order objects are printed
Keys == <<"n", "s", "e", "a", "p", "q", "value", "next">>

\* the token of a string
Quoted(s) == "\"" \o s \o "\""

RECURSIVE Stringify(_)
RECURSIVE StringifyItems(_, _)
RECURSIVE StringifyMembers(_, _, _)

\* the elements of an array from index i on, with commas between; undefined
\* and functions print as null
StringifyItems(a, i) ==
  IF i > Len(a) THEN <<>>
  ELSE (IF a[i].t \in {"undefined", "function"} THEN <<"null">> ELSE Stringify(a[i]))
       \o (IF i < Len(a) THEN <<",">> ELSE <<>>)
       \o StringifyItems(a, i + 1)

\* the properties of o from key i on; a property that is undefined or a
\* function is left out; first tells that no property was printed yet
StringifyMembers(o, i, first) ==
  IF i > Len(Keys) THEN <<>>
  ELSE IF Keys[i] \notin DOMAIN o \/ o[Keys[i]].t \in {"undefined", "function"}
  THEN StringifyMembers(o, i + 1, first)
  ELSE (IF first THEN <<>> ELSE <<",">>)
       \o <<Quoted(Keys[i]), ":">> \o Stringify(o[Keys[i]])
       \o StringifyMembers(o, i + 1, FALSE)

\* JSON.stringify(v) of a value that has a text
Stringify(v) ==
  CASE v.t = "null" -> <<"null">>
    [] v.t = "boolean" -> <<IF v.b THEN "true" ELSE "false">>
    [] v.t = "number" -> <<NumberToString(v.h)>>
    [] v.t = "string" -> <<Quoted(v.s)>>
    [] v.t = "array" -> <<"[">> \o StringifyItems(v.a, 1) \o <<"]">>
    [] v.t = "object" -> <<"{">> \o StringifyMembers(v.o, 1, TRUE) \o <<"}">>
    [] OTHER -> <<"{", "}">>

\* the value of a literal token
Literal(token) ==
  CASE token = "null" -> Null
    [] token = "true" -> Bool(TRUE)
    [] token = "false" -> Bool(FALSE)
    [] SubSeq(token, 1, 1) = "\"" -> Str(SubSeq(token, 2, Len(token) - 1))
    [] OTHER -> Half(CHOOSE h \in -99..99 : NumberToString(h) = token)

RECURSIVE ParseValue(_)
RECURSIVE ParseItems(_, _)
RECURSIVE ParseMembers(_, _)

\* the rest of an array: the value read and the tokens after it
ParseItems(tokens, a) ==
  IF Head(tokens) = "]" THEN [v |-> Arr(a), rest |-> Tail(tokens)]
  ELSE IF Head(tokens) = "," THEN ParseItems(Tail(tokens), a)
  ELSE ParseItems(ParseValue(tokens).rest, Append(a, ParseValue(tokens).v))

\* the rest of an object; of two properties of one name the later stays
ParseMembers(tokens, o) ==
  IF Head(tokens) = "}" THEN [v |-> Obj(o), rest |-> Tail(tokens)]
  ELSE IF Head(tokens) = "," THEN ParseMembers(Tail(tokens), o)
  ELSE ParseMembers(ParseValue(Tail(Tail(tokens))).rest,
                    (Literal(Head(tokens)).s :> ParseValue(Tail(Tail(tokens))).v) @@ o)

\* one value at the head of the tokens
ParseValue(tokens) ==
  CASE Head(tokens) = "[" -> ParseItems(Tail(tokens), <<>>)
    [] Head(tokens) = "{" -> ParseMembers(Tail(tokens), Empty)
    [] OTHER -> [v |-> Literal(Head(tokens)), rest |-> Tail(tokens)]

\* JSON.parse(text) of a well-formed text
JSONParse(text) == ParseValue(text).v

---------------------------------------------------------------------------
(* The entry points *)

\* const run
run(cls, json) == run2(cls, "", json)

\* what the constructor of cls does with r, the Result of Check.run(cls,
\* input): it throws, or Object.assign(this, r.result) on the object it is
\* making
Assigned(cls, input, r) ==
  IF Escapes(r)
  THEN [out |-> Thrown(r.error), ev |-> r.ev]
  ELSE IF r.success
  THEN [out |-> Returned(Inst(cls, Props(r.result), <<Age(input) + 1, "this">>)),
        ev |-> r.ev]
  ELSE [out |-> Thrown(CheckError(r.fail)), ev |-> r.ev]

\* new cls(input), unsafe being clear
constructor(cls, input) == Assigned(cls, input, run(cls, input))

\* return r.result or throw new CheckError(r.fail)
Raised(r) ==
  IF Escapes(r) THEN [out |-> Thrown(r.error), ev |-> r.ev]
  ELSE IF r.success THEN [out |-> Returned(r.result), ev |-> r.ev]
  ELSE [out |-> Thrown(CheckError(r.fail)), ev |-> r.ev]

\* const raise
raise(cls, json) == Raised(run(cls, json))

\* const parse
parse(cls, text) == Raised(run(cls, JSONParse(text)))

\* metadata(cls).fields[k]
FieldNamed(cls, k) ==
  metadata(cls).fields[CHOOSE i \in 1..Len(metadata(cls).fields) :
                         metadata(cls).fields[i].k = k]

\* const runOne
runOne(cls, object, k, v) == check(FieldNamed(cls, k).check, v)

RECURSIVE parseCollection(_, _, _, _, _)

\* Sunk leaving out the element that fails when skip is set
SunkSkipping(cls, a, i, result, ev, r) ==
  IF r.success
  THEN parseCollection(cls, a, i + 1, Append(result, r.result), ev \o r.ev)
  ELSE IF skip
  THEN parseCollection(cls, a, i + 1, result, ev \o r.ev)
  ELSE [out |-> Thrown(CheckError(r.fail)), ev |-> ev \o r.ev]

\* what the loop of parseCollection does with r, the Result of element i:
\* sink(r.result), or throw new CheckError(r.fail)
Sunk(cls, a, i, result, ev, r) ==
  IF Escapes(r)
  THEN [out |-> Thrown(r.error), ev |-> ev \o r.ev]
  ELSE IF r.success
  THEN parseCollection(cls, a, i + 1, Append(result, r.result), ev \o r.ev)
  ELSE [out |-> Thrown(CheckError(r.fail)), ev |-> ev \o r.ev]

\* the loop of parseCollection from element i on, the sink being the push of
\* parseArray
parseCollection(cls, a, i, result, ev) ==
  IF i > Len(a) THEN [out |-> Returned(Arr(result)), ev |-> ev]
  ELSE Sunk(cls, a, i, result, ev, run(cls, a[i]))

\* the TypeError of parseCollection
NotAnArray(a) ==
  [name |-> "TypeError", message |-> "expected input array but got " \o TypeofJS(a)]

\* parseArray given the value a that JSON.parse made of the text
Collected(cls, a) ==
  IF ~IsArray(a) THEN [out |-> Thrown(NotAnArray(a)), ev |-> <<>>]
  ELSE parseCollection(cls, a.a, 1, <<>>, <<>>)

\* const parseArray
parseArray(cls, text) == Collected(cls, JSONParse(text))

\* the messages the warning sink received, in order
Warnings(ev) ==
  LET w == SelectSeq(ev, LAMBDA x : x.e = "warn")
  IN  [i \in 1..Len(w) |-> w[i].message]

---------------------------------------------------------------------------
(* The schemas and inputs the model explores *)

\* the longest array an input holds
MaxLen == 2

\* the largest number an input holds
MaxNum == 3

Req(p, required) == [p EXCEPT !.required = required]

\* class E: { n: {v:1, min:1}, s: {v:"a", required:false, max:1} }
SchemaE ==
  << <<"n", [Property(Num(1)) EXCEPT !.min = Num(1)]>>,
     <<"s", [Property(Str("a")) EXCEPT !.required = Bool(FALSE), !.max = Num(1)]>> >>

\* class L: { value: {v:"a"}, next: {v:null, required:false} }
SchemaL ==
  << <<"value", Property(Str("a"))>>,
     <<"next", Req(Property(Null), Bool(FALSE))>> >>

\* class L with next in each required mode
SchemasL ==
  {SchemaL}
  \cup {<< <<"value", Property(Str("a"))>>, <<"next", Req(Property(Null), r)>> >> :
          r \in {Bool(TRUE), Str("default")}}

\* sample(cls) of a class that define has returned
sample(cls) == metadata(cls).sample

\* class N: { e: {v:sample(E), required:false}, a: {v:[sample(E)]} }
SchemaN ==
  << <<"e", Req(Property(sample("E")), Bool(FALSE))>>,
     <<"a", Property(Arr(<<sample("E")>>))>> >>

\* a number with the whole chain: min, max, allowed, regex, integer, custom
Chain ==
  [Property(Num(2)) EXCEPT
     !.min = Num(1), !.max = Num(2), !.allowed = Arr(<<Num(1), Num(2), Num(3)>>),
     !.regex = Regex("/^[023]$/", {"0", "2", "3"}), !.custom = Func("even")]

RequiredModes == {Undef, Bool(TRUE), Bool(FALSE), Str("default")}

NumberProps ==
  {Req([Property(Num(1)) EXCEPT !.min = Num(1)], r) : r \in RequiredModes}
  \cup {Chain}

StringProps ==
  {Req(Property(Str("a")), r) : r \in {Undef, Str("default")}}
  \cup {[Property(Str(v)) EXCEPT !.required = r, !.max = Num(1),
           !.allowed = Arr(<<Str("a"), Str("b")>>), !.fallback = Str(f)] :
          v \in {"a", "zz"}, r \in {Undef, Str("default")}, f \in {"b", "zz"}}

ArrayProps ==
  {Req(Property(Arr(<<Num(0)>>)), r) : r \in {Undef, Bool(FALSE), Str("default")}}
  \cup {[Property(Arr(<<Num(0)>>)) EXCEPT !.required = Str("default"), !.min = Num(1)]}
  \cup {Property(Arr(<<Arr(<<Num(0)>>)>>))}

SetProps ==
  {[Property(SetOf(<<Num(0)>>)) EXCEPT !.required = r, !.min = Num(1)] :
     r \in {Undef, Str("default")}}
  \cup {Req(Property(SetOf(<<Num(0)>>)), Str("default"))}
  \cup {[Property(SetOf(<<Num(0)>>)) EXCEPT !.min = Num(2)],
        [Property(SetOf(<<Num(0)>>)) EXCEPT !.max = Num(1)]}

\* the properties whose sample is an instance, or an array of instances, of
\* a class already defined
NestedProps(cls) ==
  {Req(Property(sample(cls)), r) : r \in RequiredModes}
  \cup {Req(Property(Arr(<<sample(cls)>>)), r) : r \in {Undef, Bool(FALSE)}}

\* the schemas of class S: one property p, or a property p that can fail or
\* be left out followed by a property q
First ==
  {Req([Property(Num(1)) EXCEPT !.min = Num(1)], r) : r \in {Undef, Bool(FALSE)}}
  \cup {Req(Property(sample("E")), Bool(FALSE)), Property(Arr(<<sample("E")>>))}

Second == {Chain, Req([Property(Num(1)) EXCEPT !.min = Num(1)], Bool(FALSE))}

\* a custom checker alone: the one of the test suite, on a number and on a
\* nested object, and two that throw
CustomProps ==
  {[Property(Num(2)) EXCEPT !.custom = Func("even")],
   [Property(sample("E")) EXCEPT !.custom = Func("even")],
   [Property(Str("a")) EXCEPT !.custom = Func("throws")],
   [Property(Str("a")) EXCEPT !.custom = Func("throwsText")]}

SchemasS ==
  {<< <<"p", p>> >> :
     p \in NumberProps \cup StringProps \cup ArrayProps \cup SetProps
           \cup CustomProps
           \cup UNION {NestedProps(c) : c \in DOMAIN classes}}
  \cup {<< <<"p", p>>, <<"q", q>> >> : p \in First, q \in Second}

\* class B: { n: {v:BigInt(0)} }, n required or defaulted, alone or with a
\* Set after it
SchemasB ==
  {<< <<"n", Req(Property(Big(0)), r)>> >> : r \in {Undef, Str("default")}}
  \cup {<< <<"n", Property(Big(0))>>, <<"p", Property(SetOf(<<Num(0)>>))>> >>}

\* the types registered
Registered == {types[i] : i \in 1..Len(types)}

\* the program defines E, then N, then S, or it defines L, or it defines B;
\* only the last registers the bigint Type
Schemas(cls) ==
  CASE cls = "L" -> IF DOMAIN classes = {} /\ "bigint" \notin Registered
                    THEN SchemasL ELSE {}
    [] cls = "B" -> IF DOMAIN classes = {} THEN SchemasB ELSE {}
    [] cls = "E" -> IF DOMAIN classes \cap {"L", "B"} # {} \/ "bigint" \in Registered
                    THEN {} ELSE {SchemaE}
    [] cls = "N" -> IF "E" \in DOMAIN classes THEN {SchemaN} ELSE {}
    [] OTHER -> IF "N" \in DOMAIN classes THEN SchemasS ELSE {}

ClassNames == {"E", "N", "S", "L", "B"}

\* the Types a program registers
Addable ==
  {"test"} \cup (IF DOMAIN classes \subseteq {"B"} THEN {"bigint"} ELSE {})

\* an object with the given properties
O1(k, v) == Obj(k :> v)
O2(k1, v1, k2, v2) == Obj((k1 :> v1) @@ (k2 :> v2))

SeqsUpTo(S, n) == UNION {[1..k -> S] : k \in 0..n}

\* plain objects offered where an instance of class E is expected
ObjectsE ==
  {O1("n", Num(1)), O2("n", Num(2), "s", Str("a")), O1("n", Num(0)),
   O1("s", Str("a")), O2("n", Num(1), "s", Str("zz")),
   O2("n", Num(0), "s", Str("zz")), O1("n", Str("a"))}

\* the elements of the arrays offered where an array of E is expected
ElementsE ==
  {O1("n", Num(1)), O2("n", Num(2), "s", Str("a")), O1("n", Num(0)),
   O1("s", Str("a")), Num(5)}

\* the array of the test "skipping": { n: undefined } at positions 0, 2, 4
Skipping ==
  Arr(<<Obj(Empty), O1("n", Num(2)), Obj(Empty), O1("n", Num(4)), Obj(Empty)>>)

\* plain objects offered where an instance of class N is expected
ObjectsN ==
  {O1("a", Arr(<<>>)),
   O2("e", O1("n", Num(1)), "a", Arr(<<O1("n", Num(1))>>)),
   O1("a", Arr(<<O1("n", Num(1)), O1("n", Num(0))>>)),
   O2("e", O1("n", Num(0)), "a", Arr(<<O1("n", Num(1))>>)),
   O1("e", O1("n", Num(1))),
   O2("e", Num(5), "a", Arr(<<>>))}

ElementsN ==
  {O2("e", O1("n", Num(1)), "a", Arr(<<O1("n", Num(1))>>)),
   O1("a", Arr(<<O1("n", Num(1)), O1("n", Num(0))>>)),
   O2("e", O1("n", Num(0)), "a", Arr(<<O1("n", Num(1))>>)),
   O1("e", O1("n", Num(0)))}

NumberInputs == {Num(n) : n \in 0..MaxNum} \cup {Half(3), Null, Str("a")}

StringInputs == {Str(""), Str("a"), Str("b"), Str("zz"), Null, Num(1)}

\* the values offered for a property whose sample is v; undefined stands for
\* a property the input does not have
InputsLike(v) ==
  {Undef} \cup
  CASE v.t = "number" -> NumberInputs
    [] v.t = "string" -> StringInputs
    [] v.t = "array" /\ v.a[1].t = "number" ->
         {Arr(a) : a \in SeqsUpTo({Num(1), Num(2), Str("x")}, MaxLen)} \cup {Str("a")}
    [] v.t = "array" /\ v.a[1].t = "array" ->
         {Arr(a) : a \in SeqsUpTo({Arr(<<Num(1)>>), Arr(<<Str("x")>>), Arr(<<>>)}, MaxLen)}
    [] v.t = "array" /\ v.a[1].t = "instance" ->
         {Arr(a) : a \in SeqsUpTo(IF v.a[1].cls = "E" THEN ElementsE ELSE ElementsN, MaxLen)}
         \cup {Str("a")} \cup (IF v.a[1].cls = "E" THEN {Skipping} ELSE {})
    [] v.t = "set" ->
         {Arr(a) : a \in SeqsUpTo({Num(1), Num(2)}, MaxLen)}
         \cup {SetOf(<<>>), SetOf(<<Num(1)>>), Num(1)}
    [] v.t = "bigint" -> {Str("2"), Str(""), Str("xxx"), Num(1), Big(1), Undef}
    [] v.t = "instance" ->
         (IF v.cls = "E" THEN ObjectsE ELSE ObjectsN)
         \cup {sample(c) : c \in DOMAIN classes}
         \cup {Null, Num(1), Arr(<<>>)}
    [] OTHER -> {}

\* the objects whose properties are drawn from choices[k], without the
\* properties drawn as undefined
Objects(choices) ==
  {Obj([k \in {x \in DOMAIN f : f[x] # Undef} |-> f[k]]) :
     f \in [DOMAIN choices -> UNION {choices[k] : k \in DOMAIN choices}]
         \cap {g \in [DOMAIN choices -> UNION {choices[k] : k \in DOMAIN choices}] :
                 \A k \in DOMAIN choices : g[k] \in choices[k]}}

RECURSIVE ChainsL(_)

\* the chains of at most d nodes offered to class L: a node has a value that
\* is a string or not, and no next, a null next or a node as next
ChainsL(d) ==
  IF d = 0 THEN {}
  ELSE {O1("value", v) : v \in {Str("a"), Num(1)}}
       \cup {O2("value", v, "next", n) :
               v \in {Str("a"), Num(1)}, n \in ChainsL(d - 1) \cup {Null}}

RECURSIVE IsJSON(_)

\* a value that JSON.stringify prints and JSON.parse reads back: no
\* undefined, bigint, Set or instance in it
IsJSON(v) ==
  CASE v.t \in {"null", "boolean", "number", "string"} -> TRUE
    [] v.t = "array" -> \A i \in 1..Len(v.a) : IsJSON(v.a[i])
    [] v.t = "object" -> \A k \in DOMAIN v.o : IsJSON(v.o[k])
    [] OTHER -> FALSE

\* the values whose text is offered to parseArray(E, _): the arrays of
\* elements of ElementsE, and values that are no array
Arrays ==
  {Arr(a) : a \in SeqsUpTo(ElementsE, MaxLen)}
  \cup {Obj(Empty), Null, Num(1), Str("a")}

\* the values offered to runOne for field k of cls: those offered to run,
\* but for null and undefined, whose length a checker cannot read
Values(cls, k) == InputsLike(Get(sample(cls), k)) \ {Undef, Null}

\* the inputs offered to run(cls, _)
Inputs(cls) ==
  CASE cls = "E" -> ObjectsE \cup {Null, Num(1), sample("E")}
    [] cls = "L" -> ChainsL(MaxLen + 1) \cup {sample("L")}
    [] cls = "N" -> ObjectsN \cup {sample("E")}
    [] OTHER ->
         LET fields == metadata(cls).fields
         IN  Objects([k \in {fields[i].k : i \in 1..Len(fields)} |->
                        InputsLike(Get(sample(cls), k))])

---------------------------------------------------------------------------
(* The state machine: the calls a program makes on the library *)

\* the built-in types (index.ts:1219-1257) in priority order, no class yet
Init ==
  /\ skip = TRUE
  /\ unsafe = FALSE
  /\ types = <<"array", "checked object", "default">>
  /\ classes = Empty
  /\ augment = "identity"
  /\ op = [name |-> "none"]

\* op holds what the last call returned until the caller has looked at it;
\* the calls that return nothing of interest leave "none"
Idle == op.name = "none"

\* the calls of run2 in ev that came to their construction
Builds(ev) == {i \in 1..Len(ev) : ev[i].e = "run2" /\ ev[i].built}

\* unsafe after a call that did ev: every construction sets it and clears it
\* when the constructor has returned, so it is as the last construction left
\* it
Flag(before, ev) ==
  IF Builds(ev) = {} THEN before
  ELSE "error" \in DOMAIN ev[CHOOSE i \in Builds(ev) : \A j \in Builds(ev) : j <= i].ret

\* a call that threw something else than a CheckError
Threw(call, cls, json, error, ev) ==
  [name |-> "threw", call |-> call, cls |-> cls, json |-> json, error |-> error,
   ev |-> ev]

\* the caller drops the result it holds
Discard ==
  /\ ~Idle
  /\ op' = [name |-> "none"]
  /\ UNCHANGED <<skip, unsafe, types, classes, augment>>

\* Check.skipInvalidObjects(flag)
SkipInvalidObjects(flag) ==
  /\ Idle
  /\ skip # flag
  /\ skip' = flag
  /\ op' = [name |-> "none"]
  /\ UNCHANGED <<unsafe, types, classes, augment>>

\* Check.augmentWith(f)
AugmentWith(f) ==
  /\ Idle
  /\ augment # f
  /\ augment' = f
  /\ op' = [name |-> "none"]
  /\ UNCHANGED <<skip, unsafe, types, classes>>

\* Check.addType(type): push, then sort by descending priority
AddType(type) ==
  /\ Idle
  /\ \A i \in 1..Len(types) : types[i] # type
  /\ types' = InsertSorted(types, type)
  /\ op' = [name |-> "none"]
  /\ UNCHANGED <<skip, unsafe, classes, augment>>

\* cls = Check.define(schema); unsafe is set while the sample is constructed
\* and cleared after.  If the augment hook throws in the constructor, define
\* throws: the caller gets no class and unsafe stays set
Define(cls, schema) ==
  /\ Idle
  /\ cls \notin DOMAIN classes
  /\ IF augment = "throws"
     THEN /\ unsafe' = TRUE
          /\ op' = Threw("define", cls, Undef, AugmentError, <<>>)
          /\ UNCHANGED classes
     ELSE /\ classes' = (cls :> define(cls, schema)) @@ classes
          /\ unsafe' = FALSE
          /\ op' = [name |-> "none"]
  /\ UNCHANGED <<skip, types, augment>>

\* what the caller of Check.run has after r
Ran(cls, json, r) ==
  IF Escapes(r) THEN Threw("run", cls, json, r.error, r.ev)
  ELSE [name |-> "run", cls |-> cls, json |-> json, ret |-> Ret(r), ev |-> r.ev]

\* Check.run(cls, json); unsafe is set while a result is constructed and
\* cleared after
Run(cls, json) ==
  /\ Idle
  /\ op' = Ran(cls, json, run(cls, json))
  /\ unsafe' = Flag(unsafe, run(cls, json).ev)
  /\ UNCHANGED <<skip, types, classes, augment>>

\* the caller holds an object that run or a constructor returned
Holds ==
  \/ op.name = "run" /\ op.ret.success /\ "held" \notin DOMAIN op
  \/ op.name = "new" /\ ~op.ret.thrown /\ op.json.t = "object"

\* the object held
Held == IF op.name = "run" THEN op.ret.result ELSE op.ret.value

\* what a caller that holds an object can give the constructor of cls: the
\* object itself or, as { k: object }, the value of a field k whose sample is
\* an instance of the object's class
Holding(cls) ==
  IF ~Holds THEN {}
  ELSE {Held}
       \cup {O1(metadata(cls).fields[i].k, Held) :
               i \in {j \in 1..Len(metadata(cls).fields) :
                        /\ op.name = "run"
                        /\ metadata(cls).fields[j].property.v.t = "instance"
                        /\ metadata(cls).fields[j].property.v.cls = Held.cls}}

\* Check.run(cls, v) on the v that Check.run(cls, json) has just returned
RunHeld ==
  /\ op.name = "run"
  /\ Holds
  /\ op' = [name |-> "run", cls |-> op.cls, json |-> Held,
            ret |-> Ret(run(op.cls, Held)), ev |-> run(op.cls, Held).ev,
            held |-> Held]
  /\ unsafe' = Flag(unsafe, run(op.cls, Held).ev)
  /\ UNCHANGED <<skip, types, classes, augment>>

\* the properties Object.assign(this, input) copies
Own(input) == IF input.t \in {"object", "instance"} THEN Props(input) ELSE Empty

\* new cls(input) while unsafe is set: Object.assign(this, input), then
\* augment(this); nothing is checked
trusted(cls, input) ==
  IF augment = "throws" THEN [out |-> Thrown(AugmentError), ev |-> <<>>]
  ELSE [out |-> Returned(Inst(cls, Own(input), <<Age(input) + 1, "this">>)),
        ev |-> <<>>]

\* new cls(input), as the caller of the constructor finds unsafe
new(cls, input) == IF unsafe THEN trusted(cls, input) ELSE constructor(cls, input)

\* new cls(input)
Construct(cls, input) ==
  /\ op' = [name |-> "new", cls |-> cls, json |-> input,
            ret |-> new(cls, input).out, ev |-> new(cls, input).ev,
            unsafe |-> unsafe]
  /\ unsafe' = Flag(unsafe, new(cls, input).ev)
  /\ UNCHANGED <<skip, types, classes, augment>>

\* Check.raise(cls, json)
Raise(cls, json) ==
  /\ Idle
  /\ op' = [name |-> "raise", cls |-> cls, json |-> json,
            ret |-> raise(cls, json).out, ev |-> raise(cls, json).ev]
  /\ unsafe' = Flag(unsafe, raise(cls, json).ev)
  /\ UNCHANGED <<skip, types, classes, augment>>

\* Check.parse(cls, JSON.stringify(json))
ParseText(cls, json) ==
  /\ Idle
  /\ op' = [name |-> "parse", cls |-> cls, json |-> json, text |-> Stringify(json),
            ret |-> parse(cls, Stringify(json)).out,
            ev |-> parse(cls, Stringify(json)).ev]
  /\ unsafe' = Flag(unsafe, parse(cls, Stringify(json)).ev)
  /\ UNCHANGED <<skip, types, classes, augment>>

\* Check.parseArray(cls, JSON.stringify(json))
ParseArray(cls, json) ==
  /\ Idle
  /\ op' = [name |-> "parseArray", cls |-> cls, json |-> json,
            text |-> Stringify(json),
            ret |-> parseArray(cls, Stringify(json)).out,
            ev |-> parseArray(cls, Stringify(json)).ev]
  /\ unsafe' = Flag(unsafe, parseArray(cls, Stringify(json)).ev)
  /\ UNCHANGED <<skip, types, classes, augment>>

\* Check.runOne(cls, object, k, v); object and the metadata are the caller's
\* to look at after the call.  A checker that throws makes runOne throw
RunOne(cls, object, k, v) ==
  /\ Idle
  /\ op' = IF Raising(FieldNamed(cls, k).check, v) # {}
           THEN Threw("runOne", cls, v, Interrupted(FieldNamed(cls, k).check, v), <<>>)
           ELSE [name |-> "runOne", cls |-> cls, object |-> object, k |-> k, v |-> v,
                 ret |-> runOne(cls, object, k, v), after |-> object,
                 before |-> metadata(cls)]
  /\ UNCHANGED <<skip, unsafe, types, classes, augment>>

\* Check.recurse(cls, key, Check.sample(cls))
Recurse(cls, key) ==
  /\ Idle
  /\ \E i \in 1..Len(metadata(cls).fields) : metadata(cls).fields[i].k = key
  /\ classes' = [classes EXCEPT ![cls] = recurse(cls, key, sample(cls))]
  /\ op' = [name |-> "recurse", cls |-> cls, key |-> key, before |-> metadata(cls)]
  /\ UNCHANGED <<skip, unsafe, types, augment>>

\* fail.withPrefix(prefix) on the Fail the last run returned
FailWithPrefix(prefix) ==
  /\ op.name = "run"
  /\ ~op.ret.success
  /\ op' = [name |-> "withPrefix", receiver |-> op.ret.fail, prefix |-> prefix,
            ret |-> WithPrefix(op.ret.fail, prefix), after |-> op.ret.fail]
  /\ UNCHANGED <<skip, unsafe, types, classes, augment>>

Prefixes == {"", "o."}

\* the augment hooks a program installs: the identity at any time, a hook
\* that throws in the programs that define no class or class L alone
Hooks ==
  {"identity"} \cup (IF DOMAIN classes \subseteq {"L"} THEN {"throws"} ELSE {})

\* Define and Run need Idle: their schemas and inputs are enumerated in
\* idle states only.  The raising entry points are given the inputs of the
\* classes of one schema; class S, with its many schemas, goes through run
Next ==
  \/ \E flag \in BOOLEAN : SkipInvalidObjects(flag)
  \/ \E f \in Hooks : AugmentWith(f)
  \/ \E type \in Addable : AddType(type)
  \/ \E cls \in ClassNames \ DOMAIN classes :
       \E schema \in (IF Idle THEN Schemas(cls) ELSE {}) : Define(cls, schema)
  \/ \E cls \in DOMAIN classes :
       \E json \in (IF Idle THEN Inputs(cls) ELSE {}) : Run(cls, json)
  \/ \E cls \in DOMAIN classes \ {"S"} :
       \E json \in (IF Idle THEN Inputs(cls) ELSE {}) : Raise(cls, json)
  \/ \E cls \in DOMAIN classes \ {"S"} :
       \E json \in (IF Idle THEN {x \in Inputs(cls) : IsJSON(x)} ELSE {}) :
         ParseText(cls, json)
  \/ \E cls \in DOMAIN classes \cap {"E"} :
       \E json \in (IF Idle THEN Arrays ELSE {}) : ParseArray(cls, json)
  \/ \E cls \in DOMAIN classes :
       \E i \in (IF Idle THEN 1..Len(metadata(cls).fields) ELSE {}) :
         \E v \in Values(cls, metadata(cls).fields[i].k) :
           RunOne(cls, O1(metadata(cls).fields[i].k, Num(0)),
                  metadata(cls).fields[i].k, v)
  \/ RunHeld
  \/ \E cls \in DOMAIN classes \cap {"L"} : Recurse(cls, "next")
  \/ \E cls \in DOMAIN classes :
       \E input \in (IF ~Idle THEN Holding(cls)
                      ELSE IF cls # "S" THEN Inputs(cls) ELSE {}) :
         Construct(cls, input)
  \/ \E prefix \in Prefixes : FailWithPrefix(prefix)
  \/ Discard

Spec == Init /\ [][Next]_vars

---------------------------------------------------------------------------
(* What the claims speak of.  The calls of run2 made by the last run, at   *)
(* every depth, are the "run2" events of op.ev; the last is the call run   *)
(* made itself.                                                            *)

\* the augment hook installed returns the object it is given (index.ts:1649);
\* the claims about what a call makes are stated of such a hook
HookReturns == augment = "identity"

Frames ==
  {op.ev[a] : a \in {b \in 1..Len(op.ev) :
                       op.ev[b].e = "run2" /\ "error" \notin DOMAIN op.ev[b].ret}}

\* a call of run2 that went through the fields of its class
Walked(x) == x.json.t \notin {"instance", "null", "undefined"}

FieldsOf(x) == classes[x.cls].fields

\* the path of field i of the object a call of run2 was given
PathOf(x, i) == (IF x.prefix = "" THEN "" ELSE x.prefix \o ".") \o FieldsOf(x)[i].k

\* the input value of field i
InputAt(x, i) ==
  IF x.json.t = "object" /\ FieldsOf(x)[i].k \in DOMAIN x.json.o
  THEN x.json.o[FieldsOf(x)[i].k]
  ELSE Undef

Absent(v) == v \in {Undef, Null}

\* what the loop of run2 does for field i of the call
Outcome(x, i) == Field(x.cls, ObjectPrefix(x.prefix), x.json, i)

\* every field before field i succeeded or was left out
Reached(x, i) == \A j \in 1..(i - 1) : Outcome(x, j).kind # "return"

\* C1: a required (true or unset) field that is undefined or null, reached
\* with every earlier field in order, makes run2 of the enclosing object (at
\* the top level: Check.run) return Failure REQ "missing required property"
\* at the enclosing path + the field name
C1_RequiredMissing ==
  op.name = "run" =>
    /\ op.ret = op.ev[Len(op.ev)].ret
    /\ \A x \in Frames : Walked(x) =>
         \A i \in 1..Len(FieldsOf(x)) :
           ( /\ Reached(x, i)
             /\ FieldsOf(x)[i].property.required \in {Undef, Bool(TRUE)}
             /\ Absent(InputAt(x, i)) )
           => x.ret = Failure(Fail(PathOf(x, i), "REQ", "missing required property"))

\* a null required field fails the run at q, after a nested object that
\* misses its required n was parsed at path p
C1_Witness ==
  /\ op.name = "run"
  /\ op.json.t = "object"
  /\ "q" \in DOMAIN op.json.o
  /\ op.json.o["q"] = Null
  /\ op.ret = Failure(Fail("q", "REQ", "missing required property"))
  /\ \E x \in Frames :
       /\ x.prefix = "p"
       /\ x.ret = Failure(Fail("p.n", "REQ", "missing required property"))

\* C2: a required:false field that is undefined or null is not in the
\* result, none of its checkers is invoked, nothing is parsed for it and the
\* Failure, if there is one, is not at its path
C2_OptionalOmitted ==
  op.name = "run" =>
    \A x \in Frames : Walked(x) =>
      \A i \in 1..Len(FieldsOf(x)) :
        ( /\ FieldsOf(x)[i].property.required = Bool(FALSE)
          /\ Absent(InputAt(x, i)) )
        => /\ x.ret.success => FieldsOf(x)[i].k \notin DOMAIN x.ret.result.o
           /\ ~x.ret.success => x.ret.fail.prefix # PathOf(x, i)
           /\ \A a \in 1..Len(x.ev) :
                x.ev[a].e \in {"check", "run2"} => x.ev[a].prefix # PathOf(x, i)

\* {p: null, q: 2}: p is optional, the result holds q alone
C2_Witness ==
  /\ op.name = "run"
  /\ op.cls = "S"
  /\ op.json = O2("p", Null, "q", Num(2))
  /\ classes["S"].fields[1].property.required = Bool(FALSE)
  /\ op.ret.success
  /\ DOMAIN op.ret.result.o = {"q"}

\* the default the claim names: the sample, or an empty collection
ExpectedDefault(field) ==
  IF field.type \in {"array", "test"}
  THEN IF field.property.v.t = "array" THEN Arr(<<>>) ELSE SetOf(<<>>)
  ELSE field.property.v

\* the sample passes its own checks, as the README asks of every schema
\* ("v ... should pass all of its checks"); define does not enforce it
SampleValid(field) == check(field.check, field.property.v) = <<>>

NotIn(allowed, v) == \A a \in 1..Len(allowed.a) : allowed.a[a] # v

\* the fallback is a value of the field's type that passes the field's
\* checks (section 4.3, step 4: "the fallback is assumed to already satisfy
\* them")
FallbackValid(field) ==
  /\ typeOf(field.property.fallback) = typeOf(field.property.v)
  /\ ~NotIn(field.property.allowed, field.property.fallback)
  /\ check(field.check, field.property.fallback) = <<>>

\* C4: for a field declaring allowed and fallback f, a supplied value that
\* is not allowed, a value of the wrong type included, gives a result field
\* equal to f and no Failure for the field: every checker is handed f, never
\* the supplied value; stated for a fallback that satisfies the field's own
\* type and checks
C4_FallbackSubstituted ==
  op.name = "run" =>
    \A x \in Frames : Walked(x) =>
      \A i \in 1..Len(FieldsOf(x)) :
        LET field == FieldsOf(x)[i]
            prop == field.property
        IN  ( /\ prop.allowed # Undef
              /\ prop.fallback # Undef
              /\ FallbackValid(field)
              /\ Reached(x, i)
              /\ ~Absent(InputAt(x, i))
              /\ NotIn(prop.allowed, InputAt(x, i)) )
            => /\ x.ret.success =>
                    /\ field.k \in DOMAIN x.ret.result.o
                    /\ x.ret.result.o[field.k] = prop.fallback
               /\ ~x.ret.success => x.ret.fail.prefix # PathOf(x, i)
               /\ \A a \in 1..Len(x.ev) :
                    (x.ev[a].e = "check" /\ x.ev[a].prefix = PathOf(x, i))
                    => x.ev[a].value = prop.fallback

\* a number given to a string field with allowed ["a","b"] and fallback "b"
C4_Witness ==
  /\ op.name = "run"
  /\ op.cls = "S"
  /\ op.json = O1("p", Num(1))
  /\ classes["S"].fields[1].property.fallback = Str("b")
  /\ classes["S"].fields[1].property.v = Str("a")
  /\ op.ret.success
  /\ op.ret.result.o["p"] = Str("b")

\* the least of a non-empty set of field indexes
Least(S) == CHOOSE i \in S : \A j \in S : i <= j

RECURSIVE EventsUpTo(_, _)

\* the events of fields 1..i of a call of run2, in order
EventsUpTo(x, i) == IF i = 0 THEN <<>> ELSE EventsUpTo(x, i - 1) \o Outcome(x, i).ev

\* C5: each call of run2, Check.run's own included, reports exactly the
\* Failure of the first failing field in schema order, descending depth
\* first into nested objects and elements, and processes no field after it
\* (no checker is run and no warning is emitted for a later field)
C5_FirstFailureOnly ==
  op.name = "run" =>
    /\ op.ret = op.ev[Len(op.ev)].ret
    /\ \A x \in Frames : Walked(x) =>
         LET failing == {i \in 1..Len(FieldsOf(x)) : Outcome(x, i).kind = "return"}
         IN  IF failing = {}
             THEN x.ret.success /\ x.ev = EventsUpTo(x, Len(FieldsOf(x)))
             ELSE /\ x.ret = Failure(Outcome(x, Least(failing)).fail)
                  /\ x.ev = EventsUpTo(x, Least(failing))

\* {p: 0, q: 0} against p with min 1 and q with the whole chain: both are
\* invalid, the Failure is p's and no checker of q is invoked
C5_Witness ==
  /\ op.name = "run"
  /\ op.cls = "S"
  /\ op.json = O2("p", Num(0), "q", Num(0))
  /\ Len(classes["S"].fields) = 2
  /\ Outcome(op.ev[Len(op.ev)], 2).kind = "return"
  /\ ~op.ret.success
  /\ op.ret.fail.prefix = "p"
  /\ op.ret.fail.code = "MIN"
  /\ \A a \in 1..Len(op.ev) : op.ev[a].e = "check" => op.ev[a].prefix = "p"

\* the checkers a property compiles to, by name, in the order of the chain
Declared(prop) ==
  SelectSeq(<<"min", "max", "allowed", "regex", "integer", "custom">>,
            LAMBDA c :
              CASE c = "min" -> prop.min # Undef
                [] c = "max" -> prop.max # Undef
                [] c = "allowed" -> prop.allowed # Undef
                [] c = "regex" -> prop.regex # Undef
                [] c = "integer" -> prop.integer # Bool(FALSE) /\ prop.v.t = "number"
                [] OTHER -> prop.custom # Undef)

\* the calls made on the checkers of field i by a call of run2
ChecksOf(x, i) ==
  SelectSeq(x.ev, LAMBDA c : c.e = "check" /\ c.prefix = PathOf(x, i))

\* C6 as claimed: once a checker of a field's chain has returned a Fail, no
\* later checker of the chain is invoked on the value
C6_Original ==
  op.name = "run" =>
    \A a \in 1..Len(op.ev) : \A b \in (a + 1)..Len(op.ev) :
      ~( /\ op.ev[a].e = "check"
         /\ op.ev[b].e = "check"
         /\ op.ev[a].prefix = op.ev[b].prefix
         /\ op.ev[a].ret # Undef )

\* C6 amended: within one field the engine invokes every checker of the
\* compiled chain on the value, in the order min, max, allowed, regex,
\* integer, custom, also after one of them has returned a Fail; the Failure
\* it reports is the Fail of the first failing checker, at the field's path
\* (a checker returns a Fail or undefined; one that throws is C24's matter)
C6_WholeChainFirstFail ==
  op.name = "run" =>
    \A x \in Frames : Walked(x) =>
      \A i \in 1..Len(FieldsOf(x)) :
        LET calls == ChecksOf(x, i)
            failed == {a \in 1..Len(calls) : calls[a].ret # Undef}
        IN  (calls # <<>> /\ \A a \in 1..Len(calls) : "raised" \notin DOMAIN calls[a].ret) =>
              /\ [a \in 1..Len(calls) |-> calls[a].pass] = Declared(FieldsOf(x)[i].property)
              /\ \A a \in 1..Len(calls) : calls[a].value = calls[1].value
              /\ failed # {} =>
                   x.ret = Failure(Fail(PathOf(x, i), calls[Least(failed)].ret.code,
                                        calls[Least(failed)].ret.message))
              /\ (failed = {} /\ ~x.ret.success) => x.ret.fail.prefix # PathOf(x, i)

\* q = 0 against the whole chain: min fails first and is the one reported,
\* and the custom checker is still invoked, and fails too
C6_Witness ==
  /\ op.name = "run"
  /\ ~op.ret.success
  /\ op.ret.fail = Fail("q", "MIN", "value of 0 < minimum value of 1")
  /\ \E a \in 1..Len(op.ev) : \E b \in (a + 1)..Len(op.ev) :
       /\ op.ev[a].e = "check" /\ op.ev[a].prefix = "q" /\ op.ev[a].pass = "min"
       /\ op.ev[a].ret # Undef
       /\ op.ev[b].e = "check" /\ op.ev[b].prefix = "q" /\ op.ev[b].pass = "custom"
       /\ op.ev[b].value = Num(0)

\* the shape a field's Type expects
ExpectedShape(field) ==
  IF field.type \in {"array", "test"} THEN "array"
  ELSE IF field.type = "checked object" THEN "object"
  ELSE IF field.type = "bigint" THEN "bigint string"
  ELSE IF field.property.v.t = "array" THEN "array"
  ELSE TypeofJS(field.property.v)

\* the shape of a value: "array" for an array, typeof for the rest
ShapeOf(v) == IF v.t = "array" THEN "array" ELSE TypeofJS(v)

\* the shape a field's Type sees in a value: the bigint Type goes by typeof,
\* the built-in Types by typeOf
Got(field, v) == IF field.type = "bigint" THEN TypeofJS(v) ELSE ShapeOf(v)

\* the value has the shape the field's Type expects
Fits(field, v) ==
  IF field.type = "bigint" THEN TypeofJS(v) = "string"
  ELSE ShapeOf(v) = ExpectedShape(field)

\* a value the Type takes as it is: an instance for a nested-schema field,
\* a collection of the field's own kind for a collection field
AlreadyValid(field, v) ==
  \/ field.type = "checked object" /\ v.t = "instance"
  \/ field.type = "test" /\ v.t = "set"

\* the value of field i after the default and the fallback took their turn
ValueAt(x, i) ==
  Substituted(FieldsOf(x)[i].property,
              IF Absent(InputAt(x, i)) /\ FieldsOf(x)[i].property.required = Str("default")
              THEN ExpectedDefault(FieldsOf(x)[i])
              ELSE InputAt(x, i))

\* C7: a field value V (after default and fallback) whose shape is not the
\* shape K its Type expects makes run2 of the enclosing object (at the top
\* level: Check.run) return Failure TYPE "expected K but got <typeOf V>" at
\* the field's path, with none of the field's checkers invoked
C7_TypeMismatch ==
  op.name = "run" =>
    \A x \in Frames : Walked(x) =>
      \A i \in 1..Len(FieldsOf(x)) :
        LET field == FieldsOf(x)[i]
            V == ValueAt(x, i)
        IN  ( /\ Reached(x, i)
              /\ x.json.t = "object"
              /\ ~(Absent(InputAt(x, i)) /\ field.property.required # Str("default"))
              /\ ~AlreadyValid(field, V)
              /\ ~Fits(field, V) )
            => /\ x.ret = Failure(Fail(PathOf(x, i), "TYPE",
                                       "expected " \o ExpectedShape(field)
                                       \o " but got " \o Got(field, V)))
               /\ ChecksOf(x, i) = <<>>

\* a string given where the whole chain expects a number: no checker runs
C7_Witness ==
  /\ op.name = "run"
  /\ op.cls = "S"
  /\ op.json = O2("p", Num(1), "q", Str("a"))
  /\ Len(classes["S"].fields[2].check) = 6
  /\ op.ret = Failure(Fail("q", "TYPE", "expected number but got string"))
  /\ \A a \in 1..Len(op.ev) : op.ev[a].e = "check" => op.ev[a].prefix = "p"

\* the property k of an input value: undefined unless it is an object
\* that has it
PropertyOf(json, k) ==
  IF json.t = "object" /\ k \in DOMAIN json.o THEN json.o[k] ELSE Undef

RECURSIVE Locations(_, _, _)

\* the values an input holds with their paths from base, as far as the
\* sample goes: f.s for subfield s of an object f, f[i] for element i of an
\* array f, i counted from 0 in the input array
Locations(json, sampleValue, base) ==
  {<<base, json>>} \cup
  IF sampleValue.t = "instance" /\ json.t \notin {"instance", "object"}
  THEN {<<(IF base = "" THEN "" ELSE base \o ".")
          \o classes[sampleValue.cls].fields[i].k, Undef>> :
          i \in 1..Len(classes[sampleValue.cls].fields)}
  ELSE IF sampleValue.t = "instance" /\ json.t = "object"
  THEN UNION {Locations(PropertyOf(json, classes[sampleValue.cls].fields[i].k),
                        classes[sampleValue.cls].fields[i].property.v,
                        (IF base = "" THEN "" ELSE base \o ".")
                        \o classes[sampleValue.cls].fields[i].k) :
                i \in 1..Len(classes[sampleValue.cls].fields)}
  ELSE IF sampleValue.t \in {"array", "set"} /\ json.t = "array"
  THEN UNION {Locations(json.a[i],
                        IF sampleValue.t = "array" THEN sampleValue.a[1]
                        ELSE sampleValue.m[1],
                        base \o "[" \o ToString(i - 1) \o "]") :
                i \in 1..Len(json.a)}
  ELSE {}

\* C8: the path of a Fail locates the failing value from the top-level
\* input: f.s for subfield s of nested object f, f[i] for element i of
\* collection f, f[i].s for a subfield of the element, composed to any
\* depth, with i the index in the input array.  Every object parsed is the
\* input value at the path it is parsed under, and every Failure, at any
\* depth, is at the path of a value of the input: a missing one for REQ, one
\* of another shape than expected for TYPE
C8_PathLocatesValue ==
  op.name = "run" =>
    LET located == Locations(op.json, classes[op.cls].sample, "")
    IN  \A x \in Frames :
          /\ <<x.prefix, x.json>> \in located
          /\ ~x.ret.success =>
               \E l \in located :
                 /\ l[1] = x.ret.fail.prefix
                 /\ x.ret.fail.code = "REQ" => Absent(l[2])
                 /\ ( /\ x.ret.fail.code = "TYPE"
                      /\ ~Absent(l[2])
                      /\ \A c \in DOMAIN classes : \A i \in 1..Len(classes[c].fields) :
                           classes[c].fields[i].property.fallback = Undef )
                    => \E K \in {"number", "string", "array", "object", "bigint",
                                  "bigint string"} \ {ShapeOf(l[2])} :
                         x.ret.fail.message = "expected " \o K \o " but got " \o ShapeOf(l[2])

\* a Failure three levels down: subfield n of element 1 of the array a of
\* element 1 of the array p, and a shape mismatch of an element
C8_Witness ==
  /\ op.name = "run"
  /\ ~op.ret.success
  /\ op.ret.fail.prefix = "p[1].a[1].n"
  /\ op.json.o["p"].a[2].o["a"].a[2] = O1("n", Num(0))
  /\ op.ret.fail.code = "MIN"

\* C9 as claimed: withPrefix(p) gives a Fail whose path is p followed by the
\* receiver's path
C9_Original ==
  op.name = "withPrefix" =>
    /\ op.ret.prefix = op.prefix \o op.receiver.prefix
    /\ op.ret.code = op.receiver.code
    /\ op.ret.message = op.receiver.message
    /\ op.after = op.receiver

\* C9 amended: withPrefix(p) returns a new Fail whose path is p, in place of
\* the receiver's path, with the same code and message, and leaves the
\* receiver unchanged; run2 hands it the whole path of the field, so that
\* the Fail of a failing checker, made with the field's name for a path, is
\* reported at the field's path
C9_PathReplaced ==
  /\ op.name = "withPrefix" =>
       /\ op.ret = Fail(op.prefix, op.receiver.code, op.receiver.message)
       /\ op.after = op.receiver
  /\ op.name = "run" =>
       \A x \in Frames : Walked(x) =>
         \A i \in 1..Len(FieldsOf(x)) :
           ( /\ Reached(x, i)
             /\ \E a \in 1..Len(ChecksOf(x, i)) : ChecksOf(x, i)[a].ret # Undef )
           => x.ret.fail.prefix = PathOf(x, i)

\* a Fail at p.n given the prefix "o."
C9_Witness ==
  /\ op.name = "withPrefix"
  /\ op.prefix = "o."
  /\ op.receiver.prefix = "p.n"
  /\ op.ret.prefix = "o."

\* the path of element j (counted from 1) of the array at path
ElementPath(path, j) == path \o "[" \o ToString(j - 1) \o "]"

\* the call of run2 made for the element of the array at path that is at
\* position j of the input
ElementFrame(ev, path, j) ==
  CHOOSE y \in {ev[a] : a \in 1..Len(ev)} : y.e = "run2" /\ y.prefix = ElementPath(path, j)

\* what parsing element j leaves in the log: what its own parse logged, the
\* parse itself and, for an element that fails, one warning with the path
\* and the message of its Fail
Segment(ev, path, j) ==
  LET y == ElementFrame(ev, path, j)
  IN  y.ev \o <<y>>
      \o IF y.ret.success THEN <<>>
         ELSE <<Warn("skipping element " \o y.ret.fail.prefix \o " - " \o y.ret.fail.message)>>

RECURSIVE Segments(_, _, _)

Segments(ev, path, n) ==
  IF n = 0 THEN <<>> ELSE Segments(ev, path, n - 1) \o Segment(ev, path, n)

\* an array field whose elements are nested-schema objects, given an array
\* of objects
ObjectsGiven(x, i) ==
  /\ FieldsOf(x)[i].type = "array"
  /\ FieldsOf(x)[i].property.v.a[1].t = "instance"
  /\ InputAt(x, i).t = "array"
  /\ \A j \in 1..Len(InputAt(x, i).a) : InputAt(x, i).a[j].t = "object"

RECURSIVE Plain(_)

\* v without the identities of the objects in it: two values with the same
\* Plain are equal property by property, whether or not they are one object
Plain(v) ==
  CASE v.t = "instance" /\ "self" \notin DOMAIN v ->
                           [t |-> "instance", cls |-> v.cls,
                            o |-> [k \in DOMAIN v.o |-> Plain(v.o[k])]]
    [] v.t = "object" -> Obj([k \in DOMAIN v.o |-> Plain(v.o[k])])
    [] v.t = "array" -> Arr([j \in 1..Len(v.a) |-> Plain(v.a[j])])
    [] OTHER -> v

\* C10: with skip set, an array field whose elements are nested-schema
\* objects is parsed to the in-order subsequence of the input elements that
\* pass their schema (each as its schema parses it on its own); each element
\* is parsed under the path of its position in the input, an element that
\* fails is dropped with one warning naming the path and message of its
\* Fail, below the path of its position in the input, the warnings come in
\* input order, and the field succeeds also when every element is dropped
C10_SkipInvalidElements ==
  (op.name = "run" /\ skip) =>
    \A x \in Frames : Walked(x) =>
      \A i \in 1..Len(FieldsOf(x)) :
        (ObjectsGiven(x, i) /\ Reached(x, i)) =>
          LET f == Outcome(x, i)
              path == PathOf(x, i)
              a == InputAt(x, i).a
              cls == FieldsOf(x)[i].property.v.a[1].cls
              alone == [j \in 1..Len(a) |-> run(cls, a[j])]
              kept == SelectSeq([j \in 1..Len(a) |-> j], LAMBDA j : alone[j].success)
          IN  /\ f.kind = "set"
              /\ Plain(f.value) = Plain(Arr([j \in 1..Len(kept) |-> alone[kept[j]].result]))
              /\ x.ret.success => x.ret.result.o[FieldsOf(x)[i].k] = f.value
              /\ \A j \in 1..Len(a) : \E b \in 1..Len(f.ev) :
                   f.ev[b].e = "run2" /\ f.ev[b].prefix = ElementPath(path, j)
              /\ f.ev = Segments(f.ev, path, Len(a))
              /\ \A j \in 1..Len(a) :
                   LET y == ElementFrame(f.ev, path, j)
                   IN  /\ y.json = a[j]
                       /\ y.ret.success = alone[j].success
                       /\ ~y.ret.success =>
                            \E l \in Locations(a[j], classes[cls].sample, ElementPath(path, j)) :
                              l[1] = y.ret.fail.prefix

\* the input of the test "skipping": the elements at 0, 2 and 4 are
\* dropped, the result holds the other two and the run succeeds
C10_Witness ==
  /\ op.name = "run"
  /\ skip
  /\ op.cls = "S"
  /\ op.json = O1("p", Skipping)
  /\ op.ret.success
  /\ [j \in 1..2 |-> op.ret.result.o["p"].a[j].o]
       = <<"n" :> Num(2), "n" :> Num(4)>>
  /\ Warnings(op.ev) = <<"skipping element p[0].n - missing required property",
                         "skipping element p[2].n - missing required property",
                         "skipping element p[4].n - missing required property">>

\* a collection field given an array, reached in schema order
CollectionGiven(x, i) ==
  /\ FieldsOf(x)[i].type \in {"array", "test"}
  /\ InputAt(x, i).t = "array"
  /\ Reached(x, i)

\* C11: with skip set, an element whose shape does not match the element
\* Type (a number where a nested-schema object is expected) is dropped from
\* the collection with a warning and the parse of the collection goes on
C11_MismatchedElementDropped ==
  (op.name = "run" /\ skip) =>
    \A x \in Frames : Walked(x) =>
      \A i \in 1..Len(FieldsOf(x)) :
        ( /\ CollectionGiven(x, i)
          /\ FieldsOf(x)[i].type = "array"
          /\ FieldsOf(x)[i].property.v.a[1].t = "instance"
          /\ \E j \in 1..Len(InputAt(x, i).a) : ShapeOf(InputAt(x, i).a[j]) # "object" )
        => /\ Outcome(x, i).kind = "set"
           /\ Warnings(Outcome(x, i).ev) # <<>>

\* C12: a failing nested object in a required:false field is left out with
\* one warning carrying the path and message of its Fail exactly when skip
\* is set; with skip cleared its Failure is the Failure of the enclosing
\* run2 (at the top level: of Check.run)
C12_OptionalNestedBySkip ==
  op.name = "run" =>
    \A x \in Frames : Walked(x) =>
      \A i \in 1..Len(FieldsOf(x)) :
        ( /\ FieldsOf(x)[i].type = "checked object"
          /\ FieldsOf(x)[i].property.required = Bool(FALSE)
          /\ Reached(x, i)
          /\ \E y \in Frames : y.prefix = PathOf(x, i) /\ ~y.ret.success )
        => LET y == CHOOSE y \in Frames : y.prefix = PathOf(x, i)
           IN  IF skip
               THEN /\ Outcome(x, i).kind = "continue"
                    /\ Warnings(Outcome(x, i).ev) = Warnings(y.ev)
                         \o <<"skipping nested object " \o y.ret.fail.prefix
                              \o " - " \o y.ret.fail.message>>
               ELSE x.ret = y.ret

\* C13: with skip cleared, no element is left out of a collection: when the
\* parse of an element fails, run2 of the enclosing object (at the top level:
\* Check.run) returns that Failure, so an array that was stored holds one
\* element for every element of the input
C13_NoElementLeftOut ==
  (op.name = "run" /\ ~skip) =>
    \A x \in Frames : Walked(x) =>
      \A i \in 1..Len(FieldsOf(x)) :
        ( /\ CollectionGiven(x, i)
          /\ FieldsOf(x)[i].type = "array"
          /\ Outcome(x, i).kind = "set" )
        => Len(Outcome(x, i).value.a) = Len(InputAt(x, i).a)

\* the class declares a field k
Declares(cls, k) == \E i \in 1..Len(classes[cls].fields) : classes[cls].fields[i].k = k

\* C14: validating again what a run returned gives back Success with that
\* very object; an instance handed to a constructor as the value of a
\* nested-schema field is the value of that field in the object made, the
\* same object and no copy, and so is every field of an instance the
\* constructor is handed whole
C14_SameObject ==
  /\ (op.name = "run" /\ "held" \in DOMAIN op) =>
       /\ op.json = op.held
       /\ op.ret = Success(op.held)
  /\ (op.name = "new" /\ op.json.t = "object" /\ ~op.ret.thrown) =>
       \A k \in DOMAIN op.json.o :
         (op.json.o[k].t = "instance" /\ Declares(op.cls, k)) =>
           op.ret.value.o[k] = op.json.o[k]
  /\ (op.name = "new" /\ op.json.t = "instance" /\ op.json.cls = op.cls
      /\ HookReturns) =>
       /\ ~op.ret.thrown
       /\ op.ret.value.o = op.json.o

\* o1b = new S(o1a), o1a = new S({p: o}), o = Check.run(E, {n: 1}).result:
\* o1b is a third object and its p is o, the object the first run made
C14_Witness ==
  /\ op.name = "new"
  /\ op.cls = "S"
  /\ op.json.t = "instance"
  /\ op.json.cls = "S"
  /\ op.json.id = <<2, "this">>
  /\ ~op.ret.thrown
  /\ op.ret.value.id = <<3, "this">>
  /\ op.ret.value.o["p"] = Inst("E", "n" :> Num(1), <<1, "">>)

\* the number of elements a Set made of the elements of the array a holds
Count(a) == Cardinality({a[j] : j \in 1..Len(a)})

\* C15: a Set field given an array is measured by the number of elements
\* the Set holds, not by the length of the array: the field is parsed only
\* if the Set made holds at least min and at most max elements, and it
\* fails with MIN or MAX only if the Set would hold fewer or more
C15_LogicalCount ==
  op.name = "run" =>
    \A x \in Frames : Walked(x) =>
      \A i \in 1..Len(FieldsOf(x)) :
        (CollectionGiven(x, i) /\ FieldsOf(x)[i].type = "test") =>
          LET f == Outcome(x, i)
              prop == FieldsOf(x)[i].property
              n == Num(Count(InputAt(x, i).a))
          IN  /\ f.kind = "set" =>
                   /\ ~Less(Num(Len(f.value.m)), prop.min)
                   /\ ~Less(prop.max, Num(Len(f.value.m)))
              /\ (f.kind = "return" /\ f.fail.code = MIN) => Less(n, prop.min)
              /\ (f.kind = "return" /\ f.fail.code = MAX) => Less(prop.max, n)

RECURSIVE NodesAlong(_)

\* the nodes of a chain from v on, following next as far as it is an object
NodesAlong(v) ==
  <<v>> \o (IF Get(v, "next").t \in {"object", "instance"}
            THEN NodesAlong(Get(v, "next")) ELSE <<>>)

\* class L after recurse(L, "next", sample(L))
Recursed ==
  /\ "L" \in DOMAIN classes
  /\ classes["L"].sample.o["next"].t = "instance"

\* C16: after recurse(S, "next", sample(S)) the sample's next is the sample
\* itself, and so is the next of that; the field next is compiled again as
\* a nested-schema field of S, every other field and every other property
\* of the sample is as define left it; and a chain of d valid nodes parses
\* to a chain of d instances of S with the values of the input in order,
\* the last one without next (next being optional)
C16_SelfReference ==
  /\ op.name = "recurse" =>
       LET s == sample(op.cls)
           md == metadata(op.cls)
       IN  /\ s.o[op.key].t = "instance"
           /\ s.o[op.key].id = s.id
           /\ Props(s.o[op.key]) = s.o
           /\ Props(s.o[op.key])[op.key].id = s.id
           /\ \A k \in DOMAIN s.o \ {op.key} : s.o[k] = op.before.sample.o[k]
           /\ Len(md.fields) = Len(op.before.fields)
           /\ \A i \in 1..Len(md.fields) :
                IF md.fields[i].k = op.key
                THEN /\ md.fields[i].type = "checked object"
                     /\ md.fields[i].property.v.id = s.id
                     /\ md.fields[i].property
                          = [op.before.fields[i].property EXCEPT !.v = md.fields[i].property.v]
                     /\ md.fields[i].check = toFunction(op.key, md.fields[i].property)
                ELSE md.fields[i] = op.before.fields[i]
  /\ (op.name = "run" /\ op.cls = "L" /\ Recursed /\ op.json.t = "object"
      /\ classes["L"].fields[2].property.required = Bool(FALSE)
      /\ HookReturns) =>
       LET given == NodesAlong(op.json)
       IN  (\A j \in 1..Len(given) : Get(given[j], "value").t = "string") =>
             /\ op.ret.success
             /\ LET made == NodesAlong(op.ret.result)
                IN  /\ Len(made) = Len(given)
                    /\ \A j \in 1..Len(made) :
                         /\ made[j].t = "instance"
                         /\ made[j].cls = "L"
                         /\ made[j].o["value"] = given[j].o["value"]
                    /\ "next" \notin DOMAIN made[Len(made)].o

\* {value:"a", next:{value:"a", next:{value:"a"}}} parsed after recurse: three
\* instances of L, one in the next of the other
C16_Witness ==
  /\ op.name = "run"
  /\ op.cls = "L"
  /\ Recursed
  /\ op.json = O2("value", Str("a"), "next",
                  O2("value", Str("a"), "next", O1("value", Str("a"))))
  /\ op.ret.success
  /\ Len(NodesAlong(op.ret.result)) = 3
  /\ op.ret.result.o["next"].o["next"].cls = "L"
  /\ DOMAIN op.ret.result.o["next"].o["next"].o = {"value"}

\* type is, of the Types in ts that apply to v, the one of greatest priority
Greatest(ts, type, v) ==
  /\ \E a \in 1..Len(ts) : ts[a] = type
  /\ AppliesTo(type, v)
  /\ \A a \in 1..Len(ts) : AppliesTo(ts[a], v) => Priority(ts[a]) <= Priority(type)

\* C17: whatever Types were added, define gives every field, and recurse
\* gives its field, the registered Type of greatest priority that applies to
\* the sample value; a field that got the bigint Type, registered above the
\* built-ins, is judged and parsed by it: TYPE "expected bigint string but
\* got <typeof>" for a value that is no string, the BigInt of a string that
\* converts, and the Type's own code BIGINT for a string that does not
C17_GreatestPriority ==
  /\ [][ /\ \A cls \in DOMAIN classes' \ DOMAIN classes :
              \A i \in 1..Len(classes'[cls].fields) :
                Greatest(types, classes'[cls].fields[i].type,
                         classes'[cls].fields[i].property.v)
         /\ (op'.name = "recurse" /\ op.name # "recurse") =>
              \A i \in 1..Len(classes'[op'.cls].fields) :
                classes'[op'.cls].fields[i].k = op'.key =>
                  Greatest(types, classes'[op'.cls].fields[i].type,
                           classes'[op'.cls].fields[i].property.v) ]_vars
  /\ [](op.name = "run" =>
         \A x \in Frames : Walked(x) =>
           \A i \in 1..Len(FieldsOf(x)) :
             LET V == ValueAt(x, i)
             IN  ( /\ FieldsOf(x)[i].type = "bigint"
                   /\ Reached(x, i)
                   /\ x.json.t = "object"
                   /\ ~Absent(V) ) =>
                 Outcome(x, i) =
                   IF TypeofJS(V) # "string"
                   THEN [kind |-> "return", ev |-> <<>>,
                         fail |-> Fail(PathOf(x, i), TYPE,
                                       "expected bigint string but got " \o TypeofJS(V))]
                   ELSE IF Numeral(V.s)
                   THEN [kind |-> "set", ev |-> <<>>, value |-> BigInt(V.s)]
                   ELSE [kind |-> "return", ev |-> <<>>,
                         fail |-> Fail(PathOf(x, i), BIGINT,
                                       "Cannot convert " \o V.s \o " to a BigInt")])

\* the bigint Type was added before B was defined, and n got it in place of
\* "default": {n: "2"} parses to 2n
C17_Witness ==
  /\ op.name = "run"
  /\ op.cls = "B"
  /\ types[1] = "bigint"
  /\ classes["B"].fields[1].type = "bigint"
  /\ op.json = O1("n", Str("2"))
  /\ op.ret.success
  /\ op.ret.result.o["n"] = Big(2)

\* what a raising entry point does with the Result run gives
Agreeing(r) ==
  IF r.success THEN Returned(r.result)
  ELSE [thrown |-> TRUE,
        error |-> [name |-> "CheckError", prefix |-> r.fail.prefix,
                   code |-> r.fail.code,
                   message |-> r.fail.prefix \o ": " \o r.fail.message]]

\* C18: under an augment hook that returns, raise(S, x), parse(S, the JSON
\* text of x) and new S(x) return exactly when run(S, x) is a Success, raise
\* and parse the result of run and the constructor an object of class S with
\* the properties of that result; otherwise they throw a CheckError with the
\* path and the code of the Fail of run and the message "<path>: <message>"
C18_RaisingAgree ==
  /\ (op.name = "raise" /\ HookReturns) =>
       op.ret = Agreeing(run(op.cls, op.json))
  /\ (op.name = "parse" /\ HookReturns) =>
       /\ JSONParse(op.text) = op.json
       /\ op.ret = Agreeing(run(op.cls, op.json))
  /\ (op.name = "new" /\ HookReturns) =>
       /\ op.ret.thrown = ~run(op.cls, op.json).success
       /\ op.ret.thrown => op.ret = Agreeing(run(op.cls, op.json))
       /\ ~op.ret.thrown =>
            /\ op.ret.value.cls = op.cls
            /\ op.ret.value.o = Props(run(op.cls, op.json).result)

RECURSIVE EventsOfRuns(_, _, _)

\* the events of run(cls, a[j]) for j = 1..n, in order
EventsOfRuns(cls, a, n) ==
  IF n = 0 THEN <<>> ELSE EventsOfRuns(cls, a, n - 1) \o run(cls, a[n]).ev

\* C19: parseArray(S, text) throws a TypeError "expected input array but got
\* <typeof>" when the text is not that of an array; otherwise it runs the
\* elements in order and returns the results of all of them, as many as the
\* input has and in its order, or, whatever skip says, throws the
\* CheckError of the first element that fails, having run no element after
\* it
C19_ParseArray ==
  op.name = "parseArray" =>
    /\ JSONParse(op.text) = op.json
    /\ IF op.json.t # "array"
       THEN /\ op.ret.thrown
            /\ op.ret.error.name = "TypeError"
            /\ op.ret.error.message
                 = "expected input array but got " \o TypeofJS(op.json)
       ELSE LET a == op.json.a
                failing == {j \in 1..Len(a) : ~run(op.cls, a[j]).success}
            IN  IF failing = {}
                THEN /\ op.ret = Returned(Arr([j \in 1..Len(a) |-> run(op.cls, a[j]).result]))
                     /\ Len(op.ret.value.a) = Len(a)
                     /\ op.ev = EventsOfRuns(op.cls, a, Len(a))
                ELSE /\ op.ret = Agreeing(run(op.cls, a[Least(failing)]))
                     /\ op.ev = EventsOfRuns(op.cls, a, Least(failing))

\* parseArray(E, '[{"n":1},{"n":0}]') with skip set: the second element is
\* not dropped, its CheckError is thrown
C19_Witness ==
  /\ op.name = "parseArray"
  /\ skip
  /\ op.text = <<"[", "{", "\"n\"", ":", "1", "}", ",",
                 "{", "\"n\"", ":", "0", "}", "]">>
  /\ op.ret.thrown
  /\ op.ret.error.name = "CheckError"
  /\ op.ret.error.code = MIN
  /\ op.ret.error.message = "n: value of 0 < minimum value of 1"

\* the positions of the chain whose checker fails on v, in chain order
FailingOf(chain, v) ==
  SelectSeq([i \in 1..Len(chain) |-> i], LAMBDA i : Checker(chain[i], v) # Undef)

\* runOne returns the Fail of every failing checker of the chain of field
\* k, in chain order, and changes neither the object nor the metadata
AllFails ==
  LET chain == FieldNamed(op.cls, op.k).check
      failing == FailingOf(chain, op.v)
  IN  /\ Len(op.ret) = Len(failing)
      /\ \A j \in 1..Len(failing) : op.ret[j] = Checker(chain[failing[j]], op.v)
      /\ (op.ret = <<>>) <=> \A i \in 1..Len(chain) : Checker(chain[i], op.v) = Undef
      /\ op.after = op.object
      /\ metadata(op.cls) = op.before

Extent(sampleValue, v) ==
  CASE sampleValue.t = "number" -> v.h
    [] sampleValue.t = "string" -> 2 * Len(v.s)
    [] OTHER -> 2 * Len(v.a)

\* the word the messages of min and max use for it
ExtentWord(sampleValue) == IF sampleValue.t = "number" THEN "value" ELSE "length"

\* the Fails min and max are to give for value v of a field
BoundFails(field, v) ==
  (IF field.property.min # Undef /\ Extent(field.property.v, v) < field.property.min.h
   THEN <<Fail(field.k, MIN,
               ExtentWord(field.property.v) \o " of "
               \o NumberToString(Extent(field.property.v, v))
               \o " < minimum " \o ExtentWord(field.property.v) \o " of "
               \o NumberToString(field.property.min.h))>>
   ELSE <<>>)
  \o
  (IF field.property.max # Undef /\ Extent(field.property.v, v) > field.property.max.h
   THEN <<Fail(field.k, MAX,
               ExtentWord(field.property.v) \o " of "
               \o NumberToString(Extent(field.property.v, v))
               \o " > maximum " \o ExtentWord(field.property.v) \o " of "
               \o NumberToString(field.property.max.h))>>
   ELSE <<>>)

\* a field whose sample is a number, a string or an array, and that declares
\* min or max
Bounded(field) ==
  /\ field.property.v.t \in {"number", "string", "array"}
  /\ field.property.min # Undef \/ field.property.max # Undef

\* C21: min and max are inclusive and compare what the sample chose at
\* define: for a number sample the value, for a string or array sample the
\* length of the value.  Of a value of the sample's shape, the MIN and MAX
\* Fails the chain gives (runOne returns them) are exactly: MIN iff the
\* extent is below min, MAX iff it is above max; and Check.run reports the
\* first of them at the field's path, and neither when the extent is within
\* the bounds, the bounds included
C21_InclusiveBounds ==
  /\ op.name = "runOne" =>
       LET field == FieldNamed(op.cls, op.k)
       IN  (Bounded(field) /\ ShapeOf(op.v) = ShapeOf(field.property.v)) =>
             SelectSeq(op.ret, LAMBDA f : f.code \in {MIN, MAX}) = BoundFails(field, op.v)
  /\ op.name = "run" =>
       \A x \in Frames : Walked(x) =>
         \A i \in 1..Len(FieldsOf(x)) :
           LET field == FieldsOf(x)[i]
               V == ValueAt(x, i)
               fails == BoundFails(field, V)
           IN  ( /\ Bounded(field)
                 /\ Reached(x, i)
                 /\ ~(Absent(InputAt(x, i)) /\ field.property.required # Str("default"))
                 /\ ShapeOf(V) = ShapeOf(field.property.v) )
               => IF fails # <<>>
                  THEN x.ret = Failure(WithPrefix(fails[1], PathOf(x, i)))
                  ELSE x.ret.success
                       \/ x.ret.fail.prefix # PathOf(x, i)
                       \/ x.ret.fail.code \notin {MIN, MAX}

\* {p: 1, q: 2} against p with min 1 and q with min 1 and max 2: both values
\* sit on a bound and the run succeeds
C21_Witness ==
  /\ op.name = "run"
  /\ op.cls = "S"
  /\ op.json = O2("p", Num(1), "q", Num(2))
  /\ Len(classes["S"].fields) = 2
  /\ classes["S"].fields[1].property.min = Num(1)
  /\ classes["S"].fields[2].property.max = Num(2)
  /\ op.ret.success
  /\ op.ret.result.o["q"] = Num(2)

\* the input is the sample instance of the class, or a plain object with the
\* properties of the sample
EqualsSample(cls, json) ==
  \/ json = sample(cls)
  \/ json.t = "object" /\ json.o = Props(sample(cls))

\* C22: for a schema whose every sample value passes its own checks,
\* Check.run of an input equal to the sample (the sample instance, or a plain
\* object with the same field values) succeeds, and the result is deep-equal
\* to the sample: the same class and, property by property, the same values
C22_SampleRoundTrip ==
  ( /\ op.name = "run"
    /\ \A i \in 1..Len(metadata(op.cls).fields) : SampleValid(metadata(op.cls).fields[i])
    /\ EqualsSample(op.cls, op.json) )
  => /\ op.ret.success
     /\ Plain(op.ret.result) = Plain(sample(op.cls))

\* the events of kind e in the log of the last call
EventsOf(e) == {a \in 1..Len(op.ev) : op.ev[a].e = e}

\* C23: one call of Check.run or of new S(x) validates once: no checker of
\* a field's chain is invoked twice at one path, run2 is entered once for
\* the input itself and at most once at every path below it (the
\* construction of a result does not come back into Check.run), and a call
\* of the constructor made while unsafe is set validates nothing
C23_ValidatedOnce ==
  op.name \in {"run", "new", "threw"} =>
    /\ \A a \in EventsOf("check") : \A b \in EventsOf("check") :
         (op.ev[a].prefix = op.ev[b].prefix /\ op.ev[a].pass = op.ev[b].pass) => a = b
    /\ \A a \in EventsOf("run2") : \A b \in EventsOf("run2") :
         op.ev[a].prefix = op.ev[b].prefix => a = b
    /\ (op.name = "run" \/ (op.name = "new" /\ ~op.unsafe)) =>
         Cardinality({a \in EventsOf("run2") : op.ev[a].prefix = ""}) = 1
    /\ (op.name = "new" /\ op.unsafe) => op.ev = <<>>

\* new N({e:{n:1}, a:[{n:1}]}): the constructor runs Check.run once, which
\* enters run2 for the input, for e and for a[0], and invokes min and integer
\* once on each n; the three constructions add no call
C23_Witness ==
  /\ op.name = "new"
  /\ op.cls = "N"
  /\ ~op.unsafe
  /\ op.json = O2("e", O1("n", Num(1)), "a", Arr(<<O1("n", Num(1))>>))
  /\ ~op.ret.thrown
  /\ Cardinality(EventsOf("run2")) = 3
  /\ Cardinality(EventsOf("check")) = 4
  /\ \A a \in EventsOf("run2") : op.ev[a].built

\* the call Check.run made on run2, for a run that returned or threw
TopCall == [cls |-> op.cls, prefix |-> "", json |-> op.json]

\* every field before field i was stored or left out
Passed(x, i) == \A j \in 1..(i - 1) : Outcome(x, j).kind \in {"set", "continue"}

\* field i of the call is a nested-schema field given a plain object
NestedGiven(x, i) ==
  /\ FieldsOf(x)[i].type = "checked object"
  /\ x.json.t = "object"
  /\ ValueAt(x, i).t = "object"

\* nothing is thrown
Nothing == [nothing |-> TRUE]

\* what is thrown while field i of the call is processed, Nothing if nothing
\* is: the TypeError of reading a property of null or undefined, what a
\* checker of the chain throws on the value, what comes out of the parse of a
\* nested object
Excepts(x, i) ==
  IF Throws(x.json)
  THEN Error("TypeError", ReadError(x.json, FieldsOf(x)[i].k))
  ELSE IF Absent(InputAt(x, i)) /\ FieldsOf(x)[i].property.required # Str("default")
  THEN Nothing
  ELSE IF Mismatch(FieldsOf(x)[i].type, ValueAt(x, i),
                   Get(sample(x.cls), FieldsOf(x)[i].k)).t = "string"
  THEN Nothing
  ELSE IF Raising(FieldsOf(x)[i].check, ValueAt(x, i)) # {}
  THEN Interrupted(FieldsOf(x)[i].check, ValueAt(x, i))
  ELSE IF NestedGiven(x, i)
          /\ Escapes(run2(FieldsOf(x)[i].property.v.cls, PathOf(x, i), ValueAt(x, i)))
  THEN run2(FieldsOf(x)[i].property.v.cls, PathOf(x, i), ValueAt(x, i)).error
  ELSE Nothing

\* C24: an exception thrown while field k of the input is processed (by a
\* checker, by the parse of the field's Type, by reading the field of a null
\* input), the fields before k having passed, does not leave Check.run: run
\* returns Failure UNKNOWN at the path of k with the message of the
\* exception
C24_FieldExceptionCaught ==
  (op.name = "run" \/ (op.name = "threw" /\ op.call = "run")) =>
    \A i \in 1..Len(FieldsOf(TopCall)) :
      (Passed(TopCall, i) /\ Excepts(TopCall, i) # Nothing) =>
        /\ op.name = "run"
        /\ op.ret = Failure(Fail(PathOf(TopCall, i), UNKNOWN,
                                 Excepts(TopCall, i).message))

\* the place of a checker in the fixed order of the chain
Rank(pass) ==
  CHOOSE n \in 1..6 :
    <<"min", "max", "allowed", "regex", "integer", "custom">>[n] = pass

\* the checkers of field i that returned a Fail in a call of run2, by name
FailedOf(x, i) ==
  {ChecksOf(x, i)[a].pass : a \in {b \in 1..Len(ChecksOf(x, i)) :
                                     ChecksOf(x, i)[b].ret # Undef}}

\* the Fail the named checker of field i returned
FailOf(x, i, pass) ==
  LET calls == ChecksOf(x, i)
  IN  calls[CHOOSE a \in 1..Len(calls) : calls[a].pass = pass].ret

\* C25: when checkers of a field's chain return a Fail, the Failure of the
\* enclosing run2 (Check.run's at the top) carries the code and message of
\* the failing checker that is earliest in the order min, max, allowed,
\* regex, integer, custom - the custom checker's only when every built-in
\* checker passed - and its path is the field's full path, whatever path
\* the checker put in its Fail
C25_EarliestCheckerReported ==
  op.name = "run" =>
    \A x \in Frames : Walked(x) =>
      \A i \in 1..Len(FieldsOf(x)) :
        LET failed == FailedOf(x, i)
            first == CHOOSE c \in failed : \A d \in failed : Rank(c) <= Rank(d)
        IN  ( /\ failed # {}
              /\ \A a \in 1..Len(ChecksOf(x, i)) :
                   "raised" \notin DOMAIN ChecksOf(x, i)[a].ret )
            => /\ ~x.ret.success
               /\ x.ret.fail.code = FailOf(x, i, first).code
               /\ x.ret.fail.message = FailOf(x, i, first).message
               /\ x.ret.fail.prefix = PathOf(x, i)
               /\ x.ret.fail.code = "EVEN" => failed = {"custom"}

\* {p: 1, q: 1.5} against q with the whole chain: 1.5 is within min and max,
\* is not allowed, does not match, is no integer and is not even; the
\* Failure is the allowed checker's, at "q", though the custom checker put
\* "v" in its Fail
C25_Witness ==
  /\ op.name = "run"
  /\ op.cls = "S"
  /\ Get(op.json, "q") = Half(3)
  /\ FailedOf(op.ev[Len(op.ev)], 2) = {"allowed", "regex", "integer", "custom"}
  /\ FailOf(op.ev[Len(op.ev)], 2, "custom").prefix = "v"
  /\ ~op.ret.success
  /\ op.ret.fail.prefix = "q"
  /\ op.ret.fail.code = "ALLOWED"

\* {p: 1} against p: {v: 2, custom: even}: only the custom checker fails,
\* and its Fail is reported at "p"
C25_CustomAlone ==
  /\ op.name = "run"
  /\ op.cls = "S"
  /\ FailedOf(op.ev[Len(op.ev)], 1) = {"custom"}
  /\ FailOf(op.ev[Len(op.ev)], 1, "custom") = Fail("v", "EVEN", "must be even")
  /\ op.ret = Failure(Fail("p", "EVEN", "must be even"))

\* the Fail the chain of a field owes to a value its Type takes as it is: of
\* a Set, the size against min, then against max; then the custom checker
Owed(field, v) ==
  LET prop == field.property
      size == Num(Len(v.m))
  IN  IF v.t = "set" /\ prop.min # Undef /\ size.h < prop.min.h
      THEN <<MIN, "size of " \o StringOf(size) \o " < minimum size of "
                  \o StringOf(prop.min)>>
      ELSE IF v.t = "set" /\ prop.max # Undef /\ size.h > prop.max.h
      THEN <<MAX, "size of " \o StringOf(size) \o " > maximum size of "
                  \o StringOf(prop.max)>>
      ELSE IF prop.custom = Func("even")
      THEN <<"EVEN", "must be even">>
      ELSE <<>>

\* C26: a value given for a field whose Type takes it as it is (a Set for a
\* Set field, an instance for a nested-schema field) still goes through the
\* field's chain, every checker of it being invoked on that value: a
\* violation is the Failure of run2 at the field's path, and otherwise the
\* object made holds the very value given, and nothing was parsed for the
\* field
C26_AlreadyValidChecked ==
  op.name = "run" =>
    \A x \in Frames : Walked(x) =>
      \A i \in 1..Len(FieldsOf(x)) :
        LET field == FieldsOf(x)[i]
            V == InputAt(x, i)
            calls == ChecksOf(x, i)
        IN  (Reached(x, i) /\ AlreadyValid(field, V)) =>
              /\ [a \in 1..Len(calls) |-> calls[a].pass] = Declared(field.property)
              /\ \A a \in 1..Len(calls) : calls[a].value = V
              /\ Owed(field, V) # <<>> =>
                   x.ret = Failure(Fail(PathOf(x, i), Owed(field, V)[1], Owed(field, V)[2]))
              /\ (Owed(field, V) = <<>> /\ x.ret.success) =>
                   /\ Props(x.ret.result)[field.k] = V
                   /\ \A a \in 1..Len(x.ev) :
                        x.ev[a].e = "run2" => x.ev[a].prefix # PathOf(x, i)

\* {p: new Set([])} against p: {v: new Set([0]), min: 1}, the Set Type
\* registered: MIN "size of 0 < minimum size of 1" at "p"
C26_Witness ==
  /\ op.name = "run"
  /\ op.cls = "S"
  /\ Get(op.json, "p") = SetOf(<<>>)
  /\ FieldsOf(TopCall)[1].type = "test"
  /\ op.ret = Failure(Fail("p", MIN, "size of 0 < minimum size of 1"))

\* {p: new Set([1])} against the same field: the Set given is the Set stored
C26_Stored ==
  /\ op.name = "run"
  /\ op.cls = "S"
  /\ Get(op.json, "p") = SetOf(<<Num(1)>>)
  /\ FieldsOf(TopCall)[1].type = "test"
  /\ FieldsOf(TopCall)[1].property.min = Num(1)
  /\ op.ret.success
  /\ Get(op.ret.result, "p") = SetOf(<<Num(1)>>)

\* {p: e} with e an instance of E, against a nested field of class E with
\* the even checker: the checker is invoked on the instance, and fails
C26_InstanceChecked ==
  /\ op.name = "run"
  /\ op.cls = "S"
  /\ Get(op.json, "p").t = "instance"
  /\ op.ret = Failure(Fail("p", "EVEN", "must be even"))

\* the greatest of a non-empty set of numbers
Most(S) == CHOOSE n \in S : \A m \in S : m <= n

RECURSIVE Nesting(_)

\* the nesting depth of an input: the longest run of plain objects one
\* inside the other, through arrays; an instance counts for nothing
Nesting(v) ==
  CASE v.t = "object" -> 1 + Most({Nesting(v.o[k]) : k \in DOMAIN v.o} \cup {0})
    [] v.t = "array" -> Most({Nesting(v.a[i]) : i \in 1..Len(v.a)} \cup {0})
    [] OTHER -> 0

RECURSIVE Depth(_)

\* the depth the recursion of run2 reached in a call: the call itself, and
\* the deepest of the calls made within it
Depth(x) ==
  1 + Most({Depth(x.ev[a]) : a \in {b \in 1..Len(x.ev) : x.ev[b].e = "run2"}}
           \cup {0})

\* the calls of run2 of an operation that ran Check.run to its end, by a
\* return or by an exception
Calls ==
  IF op.name = "run" \/ (op.name = "threw" /\ op.call = "run")
  THEN {op.ev[a] : a \in {b \in 1..Len(op.ev) : op.ev[b].e = "run2"}}
  ELSE {}

\* C27: Check.run comes to an end on every input, whatever the required mode
\* of a field that refers to its own class: a call of run2 is no deeper than
\* the plain objects of its input are nested (one call for an input that is
\* no object), and the sample is never walked - a call given an instance
\* returns it at once
C27_DepthBounded ==
  \A x \in Calls :
    /\ Depth(x) <= Most({1, Nesting(x.json)})
    /\ x.json.t = "instance" =>
         /\ x.ev = <<>>
         /\ ~x.built
         /\ x.ret = Success(x.json)

\* a chain of three nodes against L with next: {required: "default"} after
\* recurse(L, "next", sample(L)): three calls deep, and the last node made
\* has the sample itself as next
C27_Witness ==
  /\ op.name = "run"
  /\ op.cls = "L"
  /\ Recursed
  /\ classes["L"].fields[2].property.required = Str("default")
  /\ Nesting(op.json) = 3
  /\ Depth(op.ev[Len(op.ev)]) = 3
  /\ op.ret.success
  /\ Get(Get(Get(op.ret.result, "next"), "next"), "next").id = sample("L").id

\* C28: between the calls of a program the trusted-construction flag is
\* false, also after a call that ended by an exception; and so new S(input)
\* on an input that Check.run fails throws the CheckError of that Failure
C28_TrustedFlagCleared ==
  /\ unsafe = FALSE
  /\ op.name = "new" =>
       LET r == run(op.cls, op.json)
       IN  (~Escapes(r) /\ ~r.success) => op.ret = Agreeing(r)

\* the second half alone: a constructor given an invalid input throws
C28_ConstructorValidates ==
  op.name = "new" =>
    LET r == run(op.cls, op.json)
    IN  (~Escapes(r) /\ ~r.success) => op.ret = Agreeing(r)

\* C29: the result of a Check.run(S, input) that is a Success is an object
\* of class S with a property for every field of S that is not optional
\* (required true, unset or "default"), whatever the input is, an object
\* that run or a constructor of another class made included
C29_SuccessIsInstance ==
  (op.name = "run" /\ op.ret.success) =>
    /\ op.ret.result.t = "instance"
    /\ op.ret.result.cls = op.cls
    /\ \A i \in 1..Len(metadata(op.cls).fields) :
         metadata(op.cls).fields[i].property.required # Bool(FALSE) =>
           metadata(op.cls).fields[i].k \in DOMAIN Props(op.ret.result)

\* the same for the inputs that are no instance
C29_PlainInputs ==
  (op.name = "run" /\ op.ret.success /\ op.json.t # "instance") =>
    /\ op.ret.result.t = "instance"
    /\ op.ret.result.cls = op.cls
    /\ \A i \in 1..Len(metadata(op.cls).fields) :
         metadata(op.cls).fields[i].property.required # Bool(FALSE) =>
           metadata(op.cls).fields[i].k \in DOMAIN Props(op.ret.result)

\* C30: a required:"default" field whose sample passes the field's own
\* checks never fails for a missing input: the value substituted for it
\* passes the fallback, the mismatch test and the chain, so run2 of the
\* enclosing object returns no Failure at the field's path
C30_DefaultNeverFails ==
  op.name = "run" =>
    \A x \in Frames : Walked(x) =>
      \A i \in 1..Len(FieldsOf(x)) :
        ( /\ Reached(x, i)
          /\ x.json.t = "object"
          /\ FieldsOf(x)[i].property.required = Str("default")
          /\ Absent(InputAt(x, i))
          /\ SampleValid(FieldsOf(x)[i]) )
        => (x.ret.success \/ x.ret.fail.prefix # PathOf(x, i))

\* the same for the fields whose Type is neither a collection Type nor the
\* bigint Type: their default is the sample itself
C30_SampleDefaults ==
  op.name = "run" =>
    \A x \in Frames : Walked(x) =>
      \A i \in 1..Len(FieldsOf(x)) :
        ( /\ Reached(x, i)
          /\ x.json.t = "object"
          /\ FieldsOf(x)[i].property.required = Str("default")
          /\ Absent(InputAt(x, i))
          /\ SampleValid(FieldsOf(x)[i])
          /\ FieldsOf(x)[i].type \notin {"array", "test", "bigint"} )
        => (x.ret.success \/ x.ret.fail.prefix # PathOf(x, i))
====
